---- MODULE Spec2Model ----
(***************************************************************************)
(* A model of the deterministic decision core of the RAGTrust pipeline:    *)
(* evidence fusion (HybridRetriever.retrieve), the poison injector         *)
(* (Poisoner.apply / Poisoner.apply_to_corpus / inject_synthetic_poison),  *)
(* the multi-source verifier (MultiSourceVerifier.analyze) and the         *)
(* decision engine (RAGTrustPipeline.predict_label_from_verification).     *)
(*                                                                         *)
(* Python values are encoded as follows.                                   *)
(*  - a number is a rational [n |-> numerator, d |-> denominator > 0];     *)
(*    arithmetic is exact (float rounding is not modelled);                *)
(*  - a dict is a function whose DOMAIN is its set of keys;                *)
(*  - a text is a sequence of tokens, each a word or a single space " ";   *)
(*  - the booleans and strings stored under "is_poison" are the strings    *)
(*    PyTrue, PyFalse, PyStr1, PyStr0 (their Python repr);                 *)
(*  - a list or dict object has an identity: its index in lists / objs.    *)
(***************************************************************************)
EXTENDS Integers, Sequences, FiniteSets, TLC

VARIABLES
  verification,     \* dict: the verification record handed to the decision engine
  decision_params,  \* the pipeline's optional attribute decision_params
  label,            \* the label returned by predict_label_from_verification
  verifier,         \* MultiSourceVerifier: [thr_con, thr_ent, top_n_multi]
  to_verify,        \* the passage list handed to analyze (a sequence of dicts)
  mode,             \* the mode argument of the last analyze call
  nli_calls,        \* the (premise, hypothesis) pairs scored by the last analyze
  objs,             \* heap of passage dicts: objs[i] is the dict with identity i
  lists,            \* heap of passage lists: lists[i] is a sequence of dict identities
  corpus,           \* identity of the corpus list the retriever was built on
  retriever,        \* HybridRetriever: [use_bm25, use_dense]
  bm25_out,         \* what BM25Retriever.retrieve returned: <<score, dict identity>> pairs
  dense_out,        \* what DenseRetriever.retrieve returned
  k,                \* the limit passed to HybridRetriever.retrieve
  retrieved,        \* identity of the list returned by retrieve (0: none yet)
  poison_cfg,       \* cfg.poisoning: [enabled, rate, strategy, target]
  poisoner,         \* Poisoner: [strategy, rate, seed]
  rng_memo,         \* what random.Random(seed).sample(range(N), n) is, where known
  arg,              \* identity of the list passed to the last Poisoner call
  selected,         \* positions the last Poisoner call drew for corruption
  result,           \* identity of the list the last Poisoner call returned
  calls,            \* number of Poisoner calls made
  poison_log,       \* one record per Poisoner call, in order: what it drew and with what
  top_n_verify,     \* cfg.verification.top_n_verify of the pipeline
  queries,          \* number of run_one calls made on the pipeline
  error,            \* the exception that left the last operation ("none": it returned)
  batch,            \* the batch loop under way: "fever", "hotpot" or "none"
  examples,         \* the examples of a batch: the gold label or answer of each
  rows,             \* the rows list of the batch loop
  summary,          \* the summary the batch returned (absent until it returns)
  cfg,              \* the base configuration handed to the ablation
  cfg_rule,         \* the configuration derived for the current ablation variant
  rule,             \* name of the current ablation variant ("none" before the first)
  subset_n,         \* the argument n of run_decision_rule_ablation
  pipelines,        \* number of RAGTrustPipeline instances the ablation has built
  run_fn_calls,     \* one record per run_fn call of the ablation, in order
  done              \* the operation that acted last ("init" before any)

decisionVars == <<decision_params, label>>

verifierVars == <<verifier, to_verify, mode, nli_calls>>

heapVars == <<objs, lists>>

fusionVars == <<corpus, retriever, bm25_out, dense_out, k, retrieved>>

poisonVars == <<poison_cfg, poisoner, rng_memo, arg, selected, result, calls, poison_log>>

runVars ==
  <<top_n_verify, queries, error, batch, examples, rows, summary, cfg, cfg_rule, rule,
    subset_n, pipelines, run_fn_calls>>

vars ==
  <<verification, decisionVars, verifierVars, heapVars, fusionVars, poisonVars, runVars,
    done>>

----------------------------------------------------------------------------
(* Numbers *)

Rat(n, d) == [n |-> n, d |-> d]

Zero == Rat(0, 1)

One == Rat(1, 1)

RGe(a, b) == a.n * b.d >= b.n * a.d

RGt(a, b) == a.n * b.d > b.n * a.d

REq(a, b) == a.n * b.d = b.n * a.d

RSub(a, b) == Rat(a.n * b.d - b.n * a.d, a.d * b.d)

RAdd(a, b) == Rat(a.n * b.d + b.n * a.d, a.d * b.d)

----------------------------------------------------------------------------
(* Dicts *)

EmptyDict == [x \in {} |-> 0]

\* d.get(key, default)
Get(d, key, default) == IF key \in DOMAIN d THEN d[key] ELSE default

\* d[key] = v on a dict value (the caller stores the result)
Put(d, key, v) == [x \in DOMAIN d \cup {key} |-> IF x = key THEN v ELSE d[x]]

Restrict(d, keys) == [x \in DOMAIN d \cap keys |-> d[x]]

----------------------------------------------------------------------------
(* Decision engine *)

SUPPORTS == "SUPPORTS"

REFUTES == "REFUTES"

NOT_ENOUGH_INFO == "NOT ENOUGH INFO"

\* a plausible slip: the fallback parameters written without the conflict rule
MutDefaultsConflictOff ==
  [min_strength |-> Rat(3, 10), margin |-> Rat(1, 10), conflict_nei |-> FALSE]

\* the hardcoded fallback of getattr(self, "decision_params", {...})
DefaultDecisionParams ==
  [min_strength |-> Rat(3, 10), margin |-> Rat(1, 10), conflict_nei |-> TRUE]

\* a plausible slip: the margin test written as >= instead of >
MutPredictMarginGe(self_params, v) ==
  LET params == IF self_params.present THEN self_params.value
                ELSE DefaultDecisionParams
      s_ent == Get(v, "support_strength", Zero)
      s_con == Get(v, "contradiction_strength", Zero)
      conflict == Get(v, "conflict", FALSE)
      min_strength == Get(params, "min_strength", Rat(3, 10))
      margin == Get(params, "margin", Rat(1, 10))
      conflict_nei == Get(params, "conflict_nei", TRUE)
  IN  IF conflict /\ conflict_nei THEN NOT_ENOUGH_INFO
      ELSE IF RGe(s_con, min_strength) /\ RGe(RSub(s_con, s_ent), margin)
           THEN REFUTES
      ELSE IF RGe(s_ent, min_strength) /\ RGe(RSub(s_ent, s_con), margin)
           THEN SUPPORTS
      ELSE NOT_ENOUGH_INFO

\* a plausible slip: a missing "conflict" field read as True (fail-closed)
MutPredictConflictDefault(self_params, v) ==
  LET params == IF self_params.present THEN self_params.value
                ELSE DefaultDecisionParams
      s_ent == Get(v, "support_strength", Zero)
      s_con == Get(v, "contradiction_strength", Zero)
      conflict == Get(v, "conflict", TRUE)
      min_strength == Get(params, "min_strength", Rat(3, 10))
      margin == Get(params, "margin", Rat(1, 10))
      conflict_nei == Get(params, "conflict_nei", TRUE)
  IN  IF conflict /\ conflict_nei THEN NOT_ENOUGH_INFO
      ELSE IF RGe(s_con, min_strength) /\ RGt(RSub(s_con, s_ent), margin)
           THEN REFUTES
      ELSE IF RGe(s_ent, min_strength) /\ RGt(RSub(s_ent, s_con), margin)
           THEN SUPPORTS
      ELSE NOT_ENOUGH_INFO

\* RAGTrustPipeline.predict_label_from_verification
predict_label_from_verification(self_params, v) ==
  LET params == IF self_params.present THEN self_params.value
                ELSE DefaultDecisionParams
      s_ent == Get(v, "support_strength", Zero)
      s_con == Get(v, "contradiction_strength", Zero)
      conflict == Get(v, "conflict", FALSE)
      min_strength == Get(params, "min_strength", Rat(3, 10))
      margin == Get(params, "margin", Rat(1, 10))
      conflict_nei == Get(params, "conflict_nei", TRUE)
  IN  IF conflict /\ conflict_nei THEN NOT_ENOUGH_INFO
      ELSE IF RGe(s_con, min_strength) /\ RGt(RSub(s_con, s_ent), margin)
           THEN REFUTES
      ELSE IF RGe(s_ent, min_strength) /\ RGt(RSub(s_ent, s_con), margin)
           THEN SUPPORTS
      ELSE NOT_ENOUGH_INFO

----------------------------------------------------------------------------
(* Inputs of the decision engine *)

\* strengths are fractions n/d with d up to MaxDen
MaxDen == 3

Strengths == {r \in {Rat(n, d) : n \in 0..MaxDen, d \in 1..MaxDen} : r.n <= r.d}

MinStrengths == {Zero, Rat(3, 10), Rat(1, 2)}

Margins == {Rat(0 - 1, 10), Zero, Rat(1, 10)}

VerificationKeys == {"support_strength", "contradiction_strength", "conflict"}

ParamKeys == {"min_strength", "margin", "conflict_nei"}

\* verification records, with any subset of the fields present
VerificationInputs ==
  {Restrict([support_strength |-> s, contradiction_strength |-> c, conflict |-> f], K) :
     s \in Strengths, c \in Strengths, f \in BOOLEAN, K \in SUBSET VerificationKeys}

\* the attribute decision_params: absent, or a dict with any subset of the keys
DecisionParamInputs ==
  {[present |-> FALSE, value |-> EmptyDict]} \cup
  {[present |-> TRUE,
    value |-> Restrict([min_strength |-> m, margin |-> g, conflict_nei |-> b], K)] :
     m \in MinStrengths, g \in Margins, b \in BOOLEAN, K \in SUBSET ParamKeys}

\* the verifier before any analyze call
VerifierIdle ==
  /\ verifier = [thr_con |-> Rat(11, 20), thr_ent |-> Rat(11, 20), top_n_multi |-> 5]
  /\ to_verify = <<>>
  /\ mode = "none"
  /\ nli_calls = <<>>

\* no passage list exists and no retriever was used
FusionIdle ==
  /\ objs = <<>>
  /\ lists = <<>>
  /\ corpus = 0
  /\ retriever = [use_bm25 |-> TRUE, use_dense |-> TRUE]
  /\ bm25_out = <<>>
  /\ dense_out = <<>>
  /\ k = 0
  /\ retrieved = 0

\* poisoning switched off and never called
PoisonIdle ==
  /\ poison_cfg = [enabled |-> FALSE, rate |-> Rat(1, 5),
                   strategy |-> "contradictory_passage", target |-> "retrieval_set"]
  /\ poisoner = [strategy |-> "contradictory_passage", rate |-> Rat(0, 1), seed |-> 0]
  /\ rng_memo = {}
  /\ arg = 0
  /\ selected = {}
  /\ result = 0
  /\ calls = 0
  /\ poison_log = <<>>

\* no pipeline run, no batch and no ablation under way
RunIdle ==
  /\ top_n_verify = 5
  /\ queries = 0
  /\ error = "none"
  /\ batch = "none"
  /\ examples = <<>>
  /\ rows = <<>>
  /\ summary = [present |-> FALSE, value |-> EmptyDict]
  /\ cfg = EmptyDict
  /\ cfg_rule = EmptyDict
  /\ rule = "none"
  /\ subset_n = 0
  /\ pipelines = 0
  /\ run_fn_calls = <<>>

InitDecision ==
  /\ verification \in VerificationInputs
  /\ decision_params \in DecisionParamInputs
  /\ label = "none"
  /\ done = "init"
  /\ VerifierIdle
  /\ FusionIdle
  /\ PoisonIdle
  /\ RunIdle

\* one call pipeline.predict_label_from_verification(verification)
Predict ==
  /\ done = "init"
  /\ label' = predict_label_from_verification(decision_params, verification)
  /\ done' = "predict"
  /\ UNCHANGED <<verification, decision_params, verifierVars, heapVars, fusionVars,
                 poisonVars, runVars>>

NextDecision == Predict

SpecDecision == InitDecision /\ [][NextDecision]_vars

----------------------------------------------------------------------------
(* Claims about the decision engine *)

FullVerification == DOMAIN verification = VerificationKeys

FullParams == decision_params.present /\ DOMAIN decision_params.value = ParamKeys

\* the parameters in force: the attribute's entries, else the hardcoded defaults
EffMinStrength ==
  IF decision_params.present /\ "min_strength" \in DOMAIN decision_params.value
  THEN decision_params.value["min_strength"] ELSE Rat(3, 10)

EffMargin ==
  IF decision_params.present /\ "margin" \in DOMAIN decision_params.value
  THEN decision_params.value["margin"] ELSE Rat(1, 10)

Rule1 == verification["conflict"] /\ decision_params.value["conflict_nei"]

Rule2 ==
  /\ RGe(verification["contradiction_strength"], decision_params.value["min_strength"])
  /\ RGt(RSub(verification["contradiction_strength"], verification["support_strength"]),
         decision_params.value["margin"])

Rule3 ==
  /\ RGe(verification["support_strength"], decision_params.value["min_strength"])
  /\ RGt(RSub(verification["support_strength"], verification["contradiction_strength"]),
         decision_params.value["margin"])

\* C1: for every complete verification record and every complete parameter
\* triple, the returned label is that of the first matching rule in the order
\* (1) conflict and conflict_nei -> NOT ENOUGH INFO, (2) contradiction strong
\* and ahead by more than the margin -> REFUTES, (3) support strong and ahead
\* by more than the margin -> SUPPORTS, (4) otherwise NOT ENOUGH INFO.
C1_FirstMatchingRule ==
  (done = "predict" /\ FullVerification /\ FullParams) =>
    /\ Rule1 => label = NOT_ENOUGH_INFO
    /\ (~Rule1 /\ Rule2) => label = REFUTES
    /\ (~Rule1 /\ ~Rule2 /\ Rule3) => label = SUPPORTS
    /\ (~Rule1 /\ ~Rule2 /\ ~Rule3) => label = NOT_ENOUGH_INFO

\* C1 witness: rule (1) wins although rule (2) matches too
C1_Witness ==
  /\ done = "predict" /\ FullVerification /\ FullParams
  /\ Rule1 /\ Rule2 /\ label = NOT_ENOUGH_INFO

\* a verification record as analyze returns it for zero passages
ZeroPassageRecord ==
  /\ FullVerification
  /\ verification["support_strength"].n = 0
  /\ verification["contradiction_strength"].n = 0
  /\ ~verification["conflict"]

\* the record with each missing field replaced by the value the engine reads for it
Completed(v) ==
  [support_strength |-> Get(v, "support_strength", Zero),
   contradiction_strength |-> Get(v, "contradiction_strength", Zero),
   conflict |-> Get(v, "conflict", FALSE)]

\* C6 as stated, under the parameters the repository itself runs with (the
\* attribute decision_params is set nowhere, so the defaults apply): a
\* zero-passage record and a record missing any of its fields both resolve
\* to NOT ENOUGH INFO.
C6_Original ==
  (done = "predict" /\ ~decision_params.present
     /\ (ZeroPassageRecord \/ ~FullVerification)) =>
    label = NOT_ENOUGH_INFO

\* C6 amended: the engine always returns one of the three labels; a missing
\* strength is read as 0 and a missing conflict flag as False, the rules then
\* apply as usual (so a partial record can still be REFUTES or SUPPORTS); a
\* zero-passage record and a record with no field at all resolve to NOT ENOUGH
\* INFO whenever min_strength > 0 or margin >= 0 (the defaults included).
C6_DegenerateInputs ==
  done = "predict" =>
    /\ label \in {SUPPORTS, REFUTES, NOT_ENOUGH_INFO}
    /\ label = predict_label_from_verification(decision_params, Completed(verification))
    /\ ((ZeroPassageRecord \/ DOMAIN verification = {})
          /\ (RGt(EffMinStrength, Zero) \/ RGe(EffMargin, Zero)))
         => label = NOT_ENOUGH_INFO

\* C6 witness: a record without its conflict field, resolved to REFUTES
C6_Witness ==
  /\ done = "predict"
  /\ "conflict" \notin DOMAIN verification
  /\ "contradiction_strength" \in DOMAIN verification
  /\ label = REFUTES

----------------------------------------------------------------------------
(* Multi-source verifier *)

RECURSIVE JoinTexts(_)
\* " ".join(texts) for a sequence of texts
JoinTexts(texts) ==
  IF Len(texts) = 0 THEN <<>>
  ELSE IF Len(texts) = 1 THEN texts[1]
  ELSE texts[1] \o <<" ">> \o JoinTexts(Tail(texts))

\* passages[:n]
Prefix(seq, n) == SubSeq(seq, 1, IF n < Len(seq) THEN n ELSE Len(seq))

Max(a, b) == IF a >= b THEN a ELSE b

Min(a, b) == IF a <= b THEN a ELSE b

\* number of positions of a sequence of votes holding the vote v
CountVotes(vs, v) == Cardinality({i \in 1..Len(vs) : vs[i] = v})

\* a plausible slip: the dominance test over the other score dropped
MutVoteNoDominance(self, sc) ==
  LET e == sc["entailment"]
      c == sc["contradiction"]
  IN  IF RGe(c, self.thr_con) THEN "contradict"
      ELSE IF RGe(e, self.thr_ent) THEN "entail"
      ELSE "neutral"

\* a plausible slip: each score compared with the other side's threshold
MutVoteSwappedThresholds(self, sc) ==
  LET e == sc["entailment"]
      c == sc["contradiction"]
  IN  IF RGe(c, self.thr_ent) /\ RGt(c, e) THEN "contradict"
      ELSE IF RGe(e, self.thr_con) /\ RGt(e, c) THEN "entail"
      ELSE "neutral"

\* MultiSourceVerifier._vote_from_score
vote_from_score(self, sc) ==
  LET e == sc["entailment"]
      c == sc["contradiction"]
  IN  IF RGe(c, self.thr_con) /\ RGt(c, e) THEN "contradict"
      ELSE IF RGe(e, self.thr_ent) /\ RGt(e, c) THEN "entail"
      ELSE "neutral"

\* the votes dict built by votes[vote] += 1 over a sequence of votes
VotesOf(vs) ==
  [entail |-> CountVotes(vs, "entail"),
   contradict |-> CountVotes(vs, "contradict"),
   neutral |-> CountVotes(vs, "neutral")]

\* a plausible slip: strengths normalised by the votes cast for either side
MutSingleNormalise(self, query, passages, scores) ==
  LET vs == [i \in 1..Len(passages) |-> vote_from_score(self, scores[i])]
      votes == VotesOf(vs)
  IN  [votes |-> votes,
       conflict |-> (votes["entail"] > 0 /\ votes["contradict"] > 0),
       support_strength |->
         Rat(votes["entail"], Max(1, votes["entail"] + votes["contradict"])),
       contradiction_strength |->
         Rat(votes["contradict"], Max(1, votes["entail"] + votes["contradict"])),
       details |-> <<>>]

\* a plausible slip: a passage with empty text skipped instead of scored
MutSingleSkipEmpty(self, query, passages, scores) ==
  LET idx == {i \in 1..Len(passages) : Len(passages[i]["text"]) > 0}
      vs == [i \in 1..Len(passages) |->
               IF i \in idx THEN vote_from_score(self, scores[i]) ELSE "skipped"]
      votes == VotesOf(vs)
  IN  [votes |-> votes,
       conflict |-> (votes["entail"] > 0 /\ votes["contradict"] > 0),
       support_strength |-> Rat(votes["entail"], Max(1, Len(passages))),
       contradiction_strength |-> Rat(votes["contradict"], Max(1, Len(passages))),
       details |-> <<>>]

\* a plausible slip: the records collected in the order the scoring calls
\* complete (here: last call first) and not put back in passage order
MutSingleDetailsByCompletion(self, query, passages, scores) ==
  LET vs == [i \in 1..Len(passages) |-> vote_from_score(self, scores[i])]
      votes == VotesOf(vs)
      at(i) == Len(passages) + 1 - i
      details == [i \in 1..Len(passages) |->
                    [mode |-> "single",
                     title |-> Get(passages[at(i)], "title", ""),
                     sent_id |-> Get(passages[at(i)], "sent_id", ""),
                     text |-> Get(passages[at(i)], "text", <<>>),
                     nli |-> scores[at(i)],
                     vote |-> vs[at(i)],
                     is_poison |-> Get(passages[at(i)], "is_poison", "'0'")]]
  IN  [votes |-> votes,
       conflict |-> (votes["entail"] > 0 /\ votes["contradict"] > 0),
       support_strength |-> Rat(votes["entail"], Max(1, Len(passages))),
       contradiction_strength |-> Rat(votes["contradict"], Max(1, Len(passages))),
       details |-> details]

\* MultiSourceVerifier._analyze_single; scores[i] is what nli.score returns
\* on the i-th call
analyze_single(self, query, passages, scores) ==
  LET vs == [i \in 1..Len(passages) |-> vote_from_score(self, scores[i])]
      votes == VotesOf(vs)
      details == [i \in 1..Len(passages) |->
                    [mode |-> "single",
                     title |-> Get(passages[i], "title", ""),
                     sent_id |-> Get(passages[i], "sent_id", ""),
                     text |-> Get(passages[i], "text", <<>>),
                     nli |-> scores[i],
                     vote |-> vs[i],
                     is_poison |-> Get(passages[i], "is_poison", "'0'")]]
  IN  [votes |-> votes,
       conflict |-> (votes["entail"] > 0 /\ votes["contradict"] > 0),
       support_strength |-> Rat(votes["entail"], Max(1, Len(passages))),
       contradiction_strength |-> Rat(votes["contradict"], Max(1, Len(passages))),
       details |-> details]

\* the nli.score calls of _analyze_single, in order
single_calls(query, passages) ==
  [i \in 1..Len(passages) |-> [premise |-> passages[i]["text"], hypothesis |-> query]]

\* a plausible slip: every passage concatenated, not the first top_n_multi
MutAggregateAll(self, passages) ==
  JoinTexts(SelectSeq([i \in 1..Len(passages) |-> Get(passages[i], "text", <<>>)],
                      LAMBDA t : Len(t) > 0))

\* the premise of _analyze_multi: the non-empty texts of passages[:top_n_multi]
aggregated_text(self, passages) ==
  LET top == Prefix(passages, self.top_n_multi)
  IN  JoinTexts(SelectSeq([i \in 1..Len(top) |-> Get(top[i], "text", <<>>)],
                          LAMBDA t : Len(t) > 0))

\* MultiSourceVerifier._analyze_multi; sc is what the one nli.score call returns
analyze_multi(self, query, passages, sc) ==
  LET vote == vote_from_score(self, sc)
      votes == VotesOf(<<vote>>)
  IN  [votes |-> votes,
       conflict |-> (votes["entail"] > 0 /\ votes["contradict"] > 0),
       support_strength |-> Rat(votes["entail"], 1),
       contradiction_strength |-> Rat(votes["contradict"], 1),
       details |-> <<[mode |-> "multi",
                      text |-> aggregated_text(self, passages),
                      nli |-> sc,
                      vote |-> vote]>>]

\* the nli.score call of _analyze_multi
multi_calls(self, query, passages) ==
  <<[premise |-> aggregated_text(self, passages), hypothesis |-> query]>>

----------------------------------------------------------------------------
(* Inputs of the verifier *)

\* longest passage list handed to analyze
MaxPassages == 3

\* largest top_n_multi a verifier is built with
MaxTopN == 2

Query == <<"q">>

\* a FEVER-style passage and a HotpotQA-style passage (no sent_id) with empty text
PassagePool ==
  {[doc_id |-> "T1", title |-> "T1", sent_id |-> "0", text |-> <<"a">>],
   [doc_id |-> "T2__0", title |-> "T2", text |-> <<>>, source |-> "hotpot"]}

PassageLists == UNION {[1..n -> PassagePool] : n \in 0..MaxPassages}

\* vote thresholds: 0.30 (ablation rule "balanced") and 0.55 (configuration default)
Thresholds == {Rat(6, 20), Rat(11, 20)}

\* probabilities the scorer returns for (entailment, contradiction), in twentieths
ScorePairs == {<<6, 6>>, <<11, 6>>, <<6, 11>>, <<0, 6>>, <<6, 0>>}

\* the dict returned by NLIModel.score
NliScores ==
  {[entailment |-> Rat(p[1], 20), contradiction |-> Rat(p[2], 20),
    neutral |-> Rat(20 - p[1] - p[2], 20)] : p \in ScorePairs}

Modes == {"single", "multi", "batch"}

InitVerifier ==
  /\ verifier \in {[thr_con |-> tc, thr_ent |-> te, top_n_multi |-> tn] :
                     tc \in Thresholds, te \in Thresholds, tn \in 1..MaxTopN}
  /\ to_verify \in PassageLists
  /\ mode = "none"
  /\ nli_calls = <<>>
  /\ verification = EmptyDict
  /\ decision_params = [present |-> FALSE, value |-> EmptyDict]
  /\ label = "none"
  /\ done = "init"
  /\ FusionIdle
  /\ PoisonIdle
  /\ RunIdle

\* verifier.analyze(query, to_verify, mode="multi")
AnalyzeMulti ==
  /\ done = "init"
  /\ \E sc \in NliScores :
       verification' = analyze_multi(verifier, Query, to_verify, sc)
  /\ nli_calls' = multi_calls(verifier, Query, to_verify)
  /\ mode' = "multi"
  /\ done' = "analyze"
  /\ UNCHANGED <<verifier, to_verify, decisionVars, heapVars, fusionVars, poisonVars,
                 runVars>>

\* verifier.analyze(query, to_verify, mode=m) for any other mode
AnalyzeSingle ==
  /\ done = "init"
  /\ \E m \in Modes \ {"multi"} :
       mode' = m
  /\ \E scores \in [1..Len(to_verify) -> NliScores] :
       verification' = analyze_single(verifier, Query, to_verify, scores)
  /\ nli_calls' = single_calls(Query, to_verify)
  /\ done' = "analyze"
  /\ UNCHANGED <<verifier, to_verify, decisionVars, heapVars, fusionVars, poisonVars,
                 runVars>>

\* MultiSourceVerifier.analyze
Analyze == AnalyzeMulti \/ AnalyzeSingle

NextVerifier == Analyze

SpecVerifier == InitVerifier /\ [][NextVerifier]_vars

----------------------------------------------------------------------------
(* Claims about the verifier *)

Analyzed == done = "analyze"

Votes == verification["votes"]

\* C2: each vote recorded by analyze follows the strict-dominance rule on the
\* scores it was cast from: contradict iff c >= thr_con and c > e, entail iff
\* e >= thr_ent and e > c, neutral in every other case (so exactly one of the
\* three).
C2_VoteRule ==
  Analyzed =>
    \A i \in DOMAIN verification["details"] :
      LET r == verification["details"][i]
          e == r["nli"]["entailment"]
          c == r["nli"]["contradiction"]
          isCon == RGe(c, verifier.thr_con) /\ RGt(c, e)
          isEnt == RGe(e, verifier.thr_ent) /\ RGt(e, c)
      IN  /\ r["vote"] \in {"contradict", "entail", "neutral"}
          /\ (r["vote"] = "contradict") <=> isCon
          /\ (r["vote"] = "entail") <=> isEnt
          /\ (r["vote"] = "neutral") <=> (~isCon /\ ~isEnt)

\* C2 witness: both scores clear their thresholds but tie, and the vote is neutral
C2_Witness ==
  /\ Analyzed
  /\ \E i \in DOMAIN verification["details"] :
       LET r == verification["details"][i]
       IN  /\ RGe(r["nli"]["contradiction"], verifier.thr_con)
           /\ RGe(r["nli"]["entailment"], verifier.thr_ent)
           /\ REq(r["nli"]["contradiction"], r["nli"]["entailment"])
           /\ r["vote"] = "neutral"

\* C3: in single mode the three vote counts add up to the number of passages
\* (the empty list included) and conflict is true exactly when there is at
\* least one entail vote and at least one contradict vote.
C3_SingleVoteCount ==
  (Analyzed /\ mode = "single") =>
    /\ Votes["entail"] + Votes["contradict"] + Votes["neutral"] = Len(to_verify)
    /\ verification["conflict"] <=> (Votes["entail"] > 0 /\ Votes["contradict"] > 0)

\* C3 witness: a list holding an empty-text passage, with conflicting votes
C3_Witness ==
  /\ Analyzed /\ mode = "single"
  /\ \E i \in 1..Len(to_verify) : to_verify[i]["text"] = <<>>
  /\ verification["conflict"]
  /\ Votes["neutral"] > 0

\* C4: in single mode support_strength = votes.entail / max(1, len(passages))
\* and contradiction_strength = votes.contradict / max(1, len(passages)); both
\* lie in [0,1], their sum is at most 1, and both are 0 for the empty list.
C4_SingleStrengths ==
  (Analyzed /\ mode = "single") =>
    LET s == verification["support_strength"]
        c == verification["contradiction_strength"]
        N == IF Len(to_verify) = 0 THEN 1 ELSE Len(to_verify)
    IN  /\ s.n * N = Votes["entail"] * s.d
        /\ c.n * N = Votes["contradict"] * c.d
        /\ RGe(s, Zero) /\ RGe(One, s)
        /\ RGe(c, Zero) /\ RGe(One, c)
        /\ RGe(One, RAdd(s, c))
        /\ Len(to_verify) = 0 => (s.n = 0 /\ c.n = 0)

\* C4 witness: one entail vote among neutral ones (a proper fraction)
C4_Witness ==
  /\ Analyzed /\ mode = "single"
  /\ Votes["entail"] = 1 /\ Votes["neutral"] > 0
  /\ RGt(verification["support_strength"], Zero)
  /\ RGt(One, verification["support_strength"])

\* the texts a multi-mode premise is made of: those of the passages at the
\* first top_n_multi positions whose text is not empty, in list order
ContributingTexts ==
  LET last == IF Len(to_verify) < verifier.top_n_multi
              THEN Len(to_verify) ELSE verifier.top_n_multi
      keep == SelectSeq(SubSeq(to_verify, 1, last), LAMBDA p : p["text"] # <<>>)
  IN  [i \in 1..Len(keep) |-> keep[i]["text"]]

\* C5: in multi mode, for any number of passages (zero included), the scorer
\* is called exactly once, exactly one vote is cast, each strength is 0 or 1
\* and they are never both 1, conflict is false, and the premise is made of
\* the non-empty texts of the first top_n_multi passages only.
C5_MultiOneVote ==
  (Analyzed /\ mode = "multi") =>
    LET s == verification["support_strength"]
        c == verification["contradiction_strength"]
    IN  /\ Len(nli_calls) = 1
        /\ Len(verification["details"]) = 1
        /\ Votes["entail"] + Votes["contradict"] + Votes["neutral"] = 1
        /\ s \in {Rat(0, 1), Rat(1, 1)}
        /\ c \in {Rat(0, 1), Rat(1, 1)}
        /\ ~(s = Rat(1, 1) /\ c = Rat(1, 1))
        /\ verification["conflict"] = FALSE
        /\ nli_calls[1].premise = JoinTexts(ContributingTexts)
        /\ verification["details"][1]["text"] = nli_calls[1].premise

\* C5 witness: more passages than top_n_multi, one of them past the cut with
\* text, and a contradict vote
C5_Witness ==
  /\ Analyzed /\ mode = "multi"
  /\ Len(to_verify) > verifier.top_n_multi
  /\ to_verify[Len(to_verify)]["text"] # <<>>
  /\ Votes["contradict"] = 1

\* C25: in single mode (any mode but "multi") details has one record per
\* passage handed to analyze, and the i-th record is about the i-th passage:
\* it carries that passage's title, sent_id and text (empty when absent), the
\* i-th scoring call was made on that passage's text, and the record's vote
\* is the vote of the scores stored in it.
C25_DetailsInPassageOrder ==
  (Analyzed /\ mode # "multi") =>
    /\ Len(verification["details"]) = Len(to_verify)
    /\ Len(nli_calls) = Len(to_verify)
    /\ \A i \in 1..Len(to_verify) :
         LET r == verification["details"][i]
         IN  /\ r["title"] = Get(to_verify[i], "title", "")
             /\ r["sent_id"] = Get(to_verify[i], "sent_id", "")
             /\ r["text"] = Get(to_verify[i], "text", <<>>)
             /\ nli_calls[i].premise = r["text"]
             /\ r["vote"] = vote_from_score(verifier, r["nli"])
    /\ \A v \in {"entail", "contradict", "neutral"} :
         Votes[v] = Cardinality({i \in 1..Len(to_verify) :
                                   verification["details"][i]["vote"] = v})

\* C25 witness: three passages, the first unlike the last, voted differently
C25_Witness ==
  /\ Analyzed /\ mode = "single"
  /\ Len(to_verify) = 3
  /\ to_verify[1] # to_verify[3]
  /\ verification["details"][1]["vote"] = "entail"
  /\ verification["details"][3]["vote"] = "contradict"
  /\ verification["details"][1]["title"] = "T1"
  /\ verification["details"][3]["title"] = "T2"

\* entailment thresholds of a second verifier: those of the configuration
\* default, of the rule "balanced" and of the rules "strict" and "conservative"
OtherEntailmentThresholds == Thresholds \cup {Rat(8, 20)}

\* what a verifier with the entailment threshold t (and nothing else
\* changed) returns on the same passages when the scorer answers as it did
WithEntailmentThreshold(t) ==
  LET other == [verifier EXCEPT !.thr_ent = t]
      details == verification["details"]
  IN  IF mode = "multi" THEN analyze_multi(other, Query, to_verify, details[1]["nli"])
      ELSE analyze_single(other, Query, to_verify,
                          [i \in 1..Len(details) |-> details[i]["nli"]])

\* C29: on the same passages and scorer answers, a verifier that differs only
\* in entailment_threshold casts "contradict" on exactly the same passages,
\* any vote that differs is "entail" for one and "neutral" for the other, and
\* a higher entailment threshold gives no more entail votes and the same
\* number of contradict votes.
C29_EntailmentThresholdOnly ==
  Analyzed =>
    \A t \in OtherEntailmentThresholds :
      LET w == WithEntailmentThreshold(t)
          mine == verification["details"]
          theirs == w["details"]
      IN  /\ Len(theirs) = Len(mine)
          /\ \A i \in 1..Len(mine) :
               /\ (mine[i]["vote"] = "contradict") <=> (theirs[i]["vote"] = "contradict")
               /\ mine[i]["vote"] # theirs[i]["vote"] =>
                    {mine[i]["vote"], theirs[i]["vote"]} = {"entail", "neutral"}
          /\ w["votes"]["contradict"] = Votes["contradict"]
          /\ RGe(t, verifier.thr_ent) => w["votes"]["entail"] <= Votes["entail"]

\* C29 witness: under the threshold 0.30 a passage is voted entail on an
\* entailment score of 0.30, which 0.55 turns into neutral, next to a passage
\* voted contradict
C29_Witness ==
  /\ Analyzed /\ mode = "single"
  /\ verifier.thr_ent = Rat(6, 20)
  /\ \E i, j \in 1..Len(to_verify) :
       /\ verification["details"][i]["vote"] = "entail"
       /\ verification["details"][i]["nli"]["entailment"] = Rat(6, 20)
       /\ WithEntailmentThreshold(Rat(11, 20))["details"][i]["vote"] = "neutral"
       /\ verification["details"][j]["vote"] = "contradict"

----------------------------------------------------------------------------
(* Evidence fusion: HybridRetriever.retrieve *)

\* str(s) of a float and float(...) of that string (Python's repr round-trips)
PyStr(x) == [repr_of |-> x]

PyFloat(t) == t.repr_of

\* the key (title, sent_id, text) of a passage dict
KeyOf(p) == <<Get(p, "title", ""), Get(p, "sent_id", ""), Get(p, "text", <<>>)>>

\* position of key in best (0 when absent); best is the dict key -> (s, p) as
\* the sequence of its items in insertion order
FindKey(best, key) ==
  IF \E i \in 1..Len(best) : best[i].key = key
  THEN CHOOSE i \in 1..Len(best) : best[i].key = key
  ELSE 0

\* a plausible slip: >= lets a later entry with an equal score replace the kept one
MutUpdateBestGe(best, s, p, key) ==
  LET i == FindKey(best, key)
  IN  IF i = 0 THEN Append(best, [key |-> key, s |-> s, p |-> p])
      ELSE IF RGe(s, best[i].s) THEN [best EXCEPT ![i] = [key |-> key, s |-> s, p |-> p]]
      ELSE best

\* a plausible slip: the score comparison dropped, the latest entry of a key kept
MutUpdateBestLatest(best, s, p, key) ==
  LET i == FindKey(best, key)
  IN  IF i = 0 THEN Append(best, [key |-> key, s |-> s, p |-> p])
      ELSE [best EXCEPT ![i] = [key |-> key, s |-> s, p |-> p]]

\* one iteration of the merge loop: if key not in best or s > best[key][0]
UpdateBest(best, s, p, key) ==
  LET i == FindKey(best, key)
  IN  IF i = 0 THEN Append(best, [key |-> key, s |-> s, p |-> p])
      ELSE IF RGt(s, best[i].s) THEN [best EXCEPT ![i] = [key |-> key, s |-> s, p |-> p]]
      ELSE best

RECURSIVE MergeLoop(_, _, _)
\* the loop "for s, p in scored" from the dict best
MergeLoop(scored, best, heap) ==
  IF Len(scored) = 0 THEN best
  ELSE MergeLoop(Tail(scored),
                 UpdateBest(best, scored[1][1], scored[1][2], KeyOf(heap[scored[1][2]])),
                 heap)

\* insert e into a sequence sorted by non-increasing score, after its equals
InsertDesc(sorted, e) ==
  LET n == Cardinality({i \in 1..Len(sorted) : RGe(sorted[i].s, e.s)})
  IN  SubSeq(sorted, 1, n) \o <<e>> \o SubSeq(sorted, n + 1, Len(sorted))

RECURSIVE SortedDesc(_)
\* sorted(values, key=score, reverse=True): stable, equal scores keep their order
SortedDesc(values) ==
  IF Len(values) = 0 THEN <<>>
  ELSE InsertDesc(SortedDesc(SubSeq(values, 1, Len(values) - 1)), values[Len(values)])

\* a plausible slip: the [:k] cut forgotten
MutMergedNoCut(best, limit) == SortedDesc(best)

\* merged = sorted(best.values(), key=lambda x: x[0], reverse=True)[:k]
Merged(best, limit) == Prefix(SortedDesc(best), limit)

\* the dicts of the output list: q = dict(p); q["score"] = str(s)
retrieve(scored, limit, heap) ==
  LET merged == Merged(MergeLoop(scored, <<>>, heap), limit)
  IN  [i \in 1..Len(merged) |-> Put(heap[merged[i].p], "score", PyStr(merged[i].s))]

----------------------------------------------------------------------------
(* Inputs of the fusion *)

\* retrieval scores are the integers 0..MaxScore
MaxScore == 2

\* largest limit k passed to retrieve
MaxK == 3

\* a sentence-level corpus as build_hotpot_corpus makes it: the first and the
\* third passage share (title, sent_id, text) and differ in doc_id
Corpus ==
  <<[title |-> "T", text |-> <<"a">>, doc_id |-> "T__0", source |-> "hotpot"],
    [title |-> "T", text |-> <<"b">>, doc_id |-> "T__1", source |-> "hotpot"],
    [title |-> "T", text |-> <<"a">>, doc_id |-> "T__2", source |-> "hotpot"]>>

ScoreValues == {Rat(n, 1) : n \in 0..MaxScore}

\* what a retrieval source may return for limit kk over the list lst: the
\* min(kk, N) best passages of its own ranking, best first, each once
SourceOutputs(lst, kk) ==
  {out \in [1..Min(kk, Len(lst)) -> ScoreValues \X {lst[i] : i \in 1..Len(lst)}] :
     /\ \A i, j \in DOMAIN out : i < j => out[i][2] # out[j][2]
     /\ \A i, j \in DOMAIN out : i < j => RGe(out[i][1], out[j][1])}

\* the list scored of retrieve: the enabled sources' outputs, BM25 first
ScoredOf(self, bm, dn) ==
  (IF self.use_bm25 THEN bm ELSE <<>>) \o (IF self.use_dense THEN dn ELSE <<>>)

Scored == ScoredOf(retriever, bm25_out, dense_out)

InitFusion ==
  /\ objs = Corpus
  /\ lists = << [i \in 1..Len(Corpus) |-> i] >>
  /\ corpus = 1
  /\ retriever \in [use_bm25 : BOOLEAN, use_dense : BOOLEAN]
  /\ bm25_out = <<>>
  /\ dense_out = <<>>
  /\ k = 0
  /\ retrieved = 0
  /\ verification = EmptyDict
  /\ decision_params = [present |-> FALSE, value |-> EmptyDict]
  /\ label = "none"
  /\ VerifierIdle
  /\ PoisonIdle
  /\ RunIdle
  /\ done = "init"

\* HybridRetriever.retrieve(query, kk): both sources answer, the merge runs,
\* the output list and its dicts are allocated
Retrieve ==
  /\ done = "init"
  /\ \E kk \in 1..MaxK :
       /\ k' = kk
       /\ bm25_out' \in (IF retriever.use_bm25
                         THEN SourceOutputs(lists[corpus], kk) ELSE {<<>>})
       /\ dense_out' \in (IF retriever.use_dense
                          THEN SourceOutputs(lists[corpus], kk) ELSE {<<>>})
  /\ LET out == retrieve(ScoredOf(retriever, bm25_out', dense_out'), k', objs)
     IN  /\ objs' = objs \o out
         /\ lists' = Append(lists, [i \in 1..Len(out) |-> Len(objs) + i])
         /\ retrieved' = Len(lists) + 1
  /\ done' = "retrieve"
  /\ UNCHANGED <<corpus, retriever, verification, decisionVars, verifierVars, poisonVars,
                 runVars>>

NextFusion == Retrieve

SpecFusion == InitFusion /\ [][NextFusion]_vars

----------------------------------------------------------------------------
(* Claims about the fusion *)

Retrieved == done = "retrieve"

\* the passages of the list returned by retrieve
Out == [i \in 1..Len(lists[retrieved]) |-> objs[lists[retrieved][i]]]

\* the keys that reached the merge
ScoredKeys == {KeyOf(objs[Scored[i][2]]) : i \in 1..Len(Scored)}

\* positions of scored holding the key key
EntriesOf(key) == {i \in 1..Len(Scored) : KeyOf(objs[Scored[i][2]]) = key}

\* the first position of scored holding key with the highest score of that key
FirstBest(key) ==
  CHOOSE i \in EntriesOf(key) :
    /\ \A j \in EntriesOf(key) : RGe(Scored[i][1], Scored[j][1])
    /\ \A j \in EntriesOf(key) : REq(Scored[j][1], Scored[i][1]) => i <= j

\* C7: whatever the enabled sources return and whatever k, retrieve returns
\* at most k passages in non-increasing score order, and all the unique
\* passages when there are fewer than k of them.
C7_TopKSorted ==
  Retrieved =>
    /\ Len(Out) <= k
    /\ \A i, j \in 1..Len(Out) :
         i < j => RGe(PyFloat(Out[i]["score"]), PyFloat(Out[j]["score"]))
    /\ Len(Out) = Min(k, Cardinality(ScoredKeys))
    /\ Cardinality(ScoredKeys) < k => {KeyOf(Out[i]) : i \in 1..Len(Out)} = ScoredKeys

\* C7 witness: both sources answer, more unique passages than k, and the
\* output is cut to k
C7_Witness ==
  /\ Retrieved
  /\ retriever.use_bm25 /\ retriever.use_dense
  /\ Cardinality(ScoredKeys) > k
  /\ Len(Out) = k

\* C8: the output passages have pairwise distinct keys (title, sent_id,
\* text); each carries the maximum score its key received over all merged
\* entries; and among entries of one key with that same maximum score the
\* passage kept is the one seen first.
C8_UniqueMaxFirst ==
  Retrieved =>
    /\ \A i, j \in 1..Len(Out) : i # j => KeyOf(Out[i]) # KeyOf(Out[j])
    /\ \A i \in 1..Len(Out) :
         LET e == Scored[FirstBest(KeyOf(Out[i]))]
         IN  /\ KeyOf(Out[i]) \in ScoredKeys
             /\ PyFloat(Out[i]["score"]) = e[1]
             /\ DOMAIN Out[i] = DOMAIN objs[e[2]] \cup {"score"}
             /\ \A f \in DOMAIN objs[e[2]] : Out[i][f] = objs[e[2]][f]

\* C8 witness: two different corpus passages with the same key arrive with
\* the same best score, and the first one is the one in the output
C8_Witness ==
  /\ Retrieved
  /\ \E i \in 1..Len(Out) : \E a, b \in EntriesOf(KeyOf(Out[i])) :
       /\ a = FirstBest(KeyOf(Out[i]))
       /\ a < b
       /\ REq(Scored[a][1], Scored[b][1])
       /\ objs[Scored[a][2]] # objs[Scored[b][2]]
       /\ Out[i]["doc_id"] = objs[Scored[a][2]]["doc_id"]

RECURSIVE Orders(_)
\* every order in which the positions P can be presented
Orders(P) ==
  IF P = {} THEN {<<>>}
  ELSE UNION {{<<x>> \o o : o \in Orders(P \ {x})} : x \in P}

\* what retrieve returns when the merged pairs are presented in the order o
OutInOrder(o) == retrieve([i \in 1..Len(o) |-> Scored[o[i]]], k, objs)

\* C27 as stated: presented in any other order, the same pairs give the same
\* output (same passages, fields, scores and order), ties on score included.
C27_Original ==
  Retrieved => \A o \in Orders(1..Len(Scored)) : OutInOrder(o) = Out

\* no two pairs carrying different passages have the same score
NoTies ==
  \A i, j \in 1..Len(Scored) :
    Scored[i][2] # Scored[j][2] => ~REq(Scored[i][1], Scored[j][1])

\* C27 amended: when no two pairs carrying different passages tie on score,
\* the same pairs presented in any other order give the same output (same
\* passages, fields, scores and order).
C27_OrderIndependentWithoutTies ==
  (Retrieved /\ NoTies) => \A o \in Orders(1..Len(Scored)) : OutInOrder(o) = Out

\* C27 witness: both sources answer with different lists, one key arrives
\* with two different passages, no tie, and two passages come out
C27_Witness ==
  /\ Retrieved
  /\ NoTies
  /\ retriever.use_bm25 /\ retriever.use_dense
  /\ bm25_out # dense_out
  /\ Len(Scored) >= 4
  /\ \E a, b \in 1..Len(Scored) :
       /\ Scored[a][2] # Scored[b][2]
       /\ KeyOf(objs[Scored[a][2]]) = KeyOf(objs[Scored[b][2]])
  /\ Len(Out) >= 2

----------------------------------------------------------------------------
(* Poison injector *)

PyTrue == "True"

PyFalse == "False"

PyStr1 == "'1'"

PyStr0 == "'0'"

\* int(x) of a number: truncation towards zero
IntTrunc(r) == IF r.n >= 0 THEN r.n \div r.d ELSE 0 - ((0 - r.n) \div r.d)

\* len(out) * rate
Times(len, rate) == Rat(len * rate.n, rate.d)

RECURSIVE LStrip(_)
LStrip(t) == IF Len(t) > 0 /\ t[1] = " " THEN LStrip(Tail(t)) ELSE t

RECURSIVE RStrip(_)
RStrip(t) ==
  IF Len(t) > 0 /\ t[Len(t)] = " " THEN RStrip(SubSeq(t, 1, Len(t) - 1)) ELSE t

\* text.strip()
Strip(t) == RStrip(LStrip(t))

\* word.lower() on the vocabulary of the model
LowerWord(w) ==
  IF w \in {"Not", "NOT"} THEN "not"
  ELSE IF w \in {"Yes", "YES"} THEN "yes"
  ELSE IF w \in {"No", "NO"} THEN "no"
  ELSE w

\* " not " in t.lower()
ContainsNot(t) ==
  \E i \in 2..(Len(t) - 1) : t[i - 1] = " " /\ LowerWord(t[i]) = "not" /\ t[i + 1] = " "

RECURSIVE ReplaceNot(_)
\* t.replace(" not ", " "): case-sensitive, left to right, non-overlapping
ReplaceNot(t) ==
  IF Len(t) >= 3 /\ t[1] = " " /\ t[2] = "not" /\ t[3] = " "
  THEN <<" ">> \o ReplaceNot(SubSeq(t, 4, Len(t)))
  ELSE IF Len(t) = 0 THEN <<>>
  ELSE <<t[1]>> \o ReplaceNot(Tail(t))

\* make_contradictory_passage
make_contradictory_passage(text) ==
  LET t == Strip(text)
  IN  IF Len(t) = 0 THEN <<"This", " ", "statement", " ", "is", " ", "false.">>
      ELSE IF ContainsNot(t) THEN ReplaceNot(t)
      ELSE <<"It", " ", "is", " ", "not", " ", "true", " ", "that:", " ">> \o t

\* the dicts of the list with identity l
Deref(os, ls, l) == [i \in 1..Len(ls[l]) |-> os[ls[l][i]]]

\* a new list of new dicts on the heap; result is the new list's identity
HeapAlloc(os, ls, dicts) ==
  [objs |-> os \o dicts,
   lists |-> Append(ls, [i \in 1..Len(dicts) |-> Len(os) + i]),
   result |-> Len(ls) + 1]

\* the number of indices inject_synthetic_poison draws:
\* n_poison = max(1, int(len(out) * rate)); k = max(0, min(n_poison, len(out)))
inject_count(len, rate) == Max(0, Min(Max(1, IntTrunc(Times(len, rate))), len))

\* the number of indices apply_to_corpus draws:
\* n_poison = int(len(out) * rate); k = max(0, min(n_poison, len(out)))
corpus_count(len, rate) == Max(0, Min(IntTrunc(Times(len, rate)), len))

\* a plausible slip: the passages of the given list corrupted in place and the
\* list itself returned
MutInjectInPlace(os, ls, l, rate, idxs) ==
  LET hit(p) == Put(Put(Put(Put(p,
                  "text", make_contradictory_passage(p["text"])),
                  "is_poison", PyTrue),
                  "source", "poison"),
                  "doc_id", p["doc_id"] \o "__POISON")
      at(i) == CHOOSE j \in 1..Len(ls[l]) : ls[l][j] = i
  IN  [objs |-> [i \in 1..Len(os) |->
                   IF \E j \in 1..Len(ls[l]) : ls[l][j] = i
                   THEN IF at(i) \in idxs THEN hit(os[i])
                        ELSE Put(os[i], "is_poison", PyFalse)
                   ELSE os[i]],
       lists |-> ls,
       result |-> l]

\* inject_synthetic_poison; idxs is what rng.sample returned (positions from 1)
inject_synthetic_poison(os, ls, l, rate, idxs) ==
  LET retrieved_ == Deref(os, ls, l)
      out0 == [i \in 1..Len(retrieved_) |-> Put(retrieved_[i], "is_poison", PyFalse)]
      hit(p) == Put(Put(Put(Put(p,
                  "text", make_contradictory_passage(p["text"])),
                  "is_poison", PyTrue),
                  "source", "poison"),
                  "doc_id", p["doc_id"] \o "__POISON")
  IN  HeapAlloc(os, ls, [i \in 1..Len(out0) |-> IF i \in idxs THEN hit(out0[i]) ELSE out0[i]])

\* a plausible slip: the list copied although nothing is poisoned
MutApplyCopies(self, os, ls, l, idxs) ==
  IF RGe(Zero, self.rate) THEN HeapAlloc(os, ls, Deref(os, ls, l))
  ELSE IF self.strategy = "contradictory_passage"
       THEN inject_synthetic_poison(os, ls, l, self.rate, idxs)
  ELSE [objs |-> os, lists |-> ls, result |-> l]

\* Poisoner.apply
apply(self, os, ls, l, idxs) ==
  IF RGe(Zero, self.rate) THEN [objs |-> os, lists |-> ls, result |-> l]
  ELSE IF self.strategy = "contradictory_passage"
       THEN inject_synthetic_poison(os, ls, l, self.rate, idxs)
  ELSE [objs |-> os, lists |-> ls, result |-> l]

\* Poisoner.apply_to_corpus; idxs is what rng.sample returned (positions from 1)
apply_to_corpus(self, os, ls, l, idxs) ==
  IF RGe(Zero, self.rate) THEN [objs |-> os, lists |-> ls, result |-> l]
  ELSE
    LET out0 == Deref(os, ls, l)
        hit(p) == Put(Put(Put(p,
                    "text", make_contradictory_passage(Get(p, "text", <<>>))),
                    "is_poison", PyStr1),
                    "doc_id", Get(p, "doc_id", "") \o "__POISON")
    IN  HeapAlloc(os, ls, [i \in 1..Len(out0) |-> IF i \in idxs THEN hit(out0[i]) ELSE out0[i]])

\* the Poisoner built by RAGTrustPipeline.__init__
PoisonerOfCfg(poisoning, seed) ==
  [strategy |-> poisoning.strategy,
   rate |-> IF poisoning.enabled THEN poisoning.rate ELSE Rat(0, 1),
   seed |-> seed]

\* a plausible slip: one sampler kept and drawn from again, so that a draw
\* continues the stream instead of restarting it from the seed
MutSampleCarriesOver(memo, seed, len, n) ==
  {S \in SUBSET (1..len) : Cardinality(S) = n}

\* random.Random(seed).sample(range(len), n): a fixed function of (seed, len, n);
\* any n distinct positions until it is known, the remembered ones afterwards
Sample(memo, seed, len, n) ==
  IF \E m \in memo : m.args = <<seed, len, n>>
  THEN {m.idxs : m \in {x \in memo : x.args = <<seed, len, n>>}}
  ELSE {S \in SUBSET (1..len) : Cardinality(S) = n}

\* the identity of the random.Random object a call creates: every call that
\* draws executes rng = random.Random(seed) anew (0: the call creates none)
NewRng(log, draws) ==
  IF draws THEN 1 + Cardinality({i \in 1..Len(log) : log[i].rng # 0}) ELSE 0

\* the record of one Poisoner call
LogEntry(log, op, self, len, draws, idxs) ==
  [op |-> op, seed |-> self.seed, rate |-> self.rate, len |-> len,
   idxs |-> idxs, rng |-> NewRng(log, draws)]

----------------------------------------------------------------------------
(* Inputs of the poison injector *)

\* longest list handed to the Poisoner
MaxList == 3

\* Poisoner calls per run
MaxCalls == 2

PoisonPool ==
  {[doc_id |-> "T1", title |-> "T1", sent_id |-> "0", text |-> <<"a">>],
   [doc_id |-> "T2", title |-> "T2", sent_id |-> "1",
    text |-> <<"a", " ", "not", " ", "b">>]}

PoisonInputs == UNION {[1..n -> PoisonPool] : n \in 0..MaxList}

\* poison rates: negative, zero, the default 0.2, one half, above one
Rates == {Rat(0 - 1, 10), Rat(0, 1), Rat(1, 5), Rat(1, 2), Rat(3, 2)}

Strategies == {"contradictory_passage", "paraphrase"}

Seeds == {7, 42}

InitPoison ==
  /\ \E input \in PoisonInputs :
       /\ objs = input
       /\ lists = << [i \in 1..Len(input) |-> i] >>
  /\ corpus = 1
  /\ poison_cfg \in [enabled : BOOLEAN, rate : Rates, strategy : Strategies,
                     target : {"retrieval_set"}]
  /\ \E seed \in Seeds : poisoner = PoisonerOfCfg(poison_cfg, seed)
  /\ rng_memo = {}
  /\ arg = 0
  /\ selected = {}
  /\ result = 0
  /\ calls = 0
  /\ poison_log = <<>>
  /\ retriever = [use_bm25 |-> TRUE, use_dense |-> TRUE]
  /\ bm25_out = <<>>
  /\ dense_out = <<>>
  /\ k = 0
  /\ retrieved = 0
  /\ verification = EmptyDict
  /\ decision_params = [present |-> FALSE, value |-> EmptyDict]
  /\ label = "none"
  /\ VerifierIdle
  /\ RunIdle
  /\ done = "init"

\* the lists a call may be made on: the input list and the last result
Callable == {corpus} \cup (IF result = 0 THEN {} ELSE {result})

\* poisoner.apply(lists[l])
PoisonerApply ==
  /\ calls < MaxCalls
  /\ \E l \in Callable :
       LET len == Len(lists[l])
           draws == RGt(poisoner.rate, Zero) /\ poisoner.strategy = "contradictory_passage"
           n == inject_count(len, poisoner.rate)
       IN  \E idxs \in (IF draws THEN Sample(rng_memo, poisoner.seed, len, n) ELSE {{}}) :
             LET r == apply(poisoner, objs, lists, l, idxs)
             IN  /\ objs' = r.objs
                 /\ lists' = r.lists
                 /\ result' = r.result
                 /\ arg' = l
                 /\ selected' = idxs
                 /\ rng_memo' = IF draws
                                THEN rng_memo \cup
                                       {[args |-> <<poisoner.seed, len, n>>, idxs |-> idxs]}
                                ELSE rng_memo
                 /\ poison_log' = Append(poison_log,
                                     LogEntry(poison_log, "apply", poisoner, len, draws, idxs))
  /\ calls' = calls + 1
  /\ done' = "apply"
  /\ UNCHANGED <<poison_cfg, poisoner, corpus, retriever, bm25_out, dense_out, k,
                 retrieved, verification, decisionVars, verifierVars, runVars>>

\* poisoner.apply_to_corpus(lists[l])
PoisonerApplyToCorpus ==
  /\ calls < MaxCalls
  /\ \E l \in Callable :
       LET len == Len(lists[l])
           draws == RGt(poisoner.rate, Zero)
           n == corpus_count(len, poisoner.rate)
       IN  \E idxs \in (IF draws THEN Sample(rng_memo, poisoner.seed, len, n) ELSE {{}}) :
             LET r == apply_to_corpus(poisoner, objs, lists, l, idxs)
             IN  /\ objs' = r.objs
                 /\ lists' = r.lists
                 /\ result' = r.result
                 /\ arg' = l
                 /\ selected' = idxs
                 /\ rng_memo' = IF draws
                                THEN rng_memo \cup
                                       {[args |-> <<poisoner.seed, len, n>>, idxs |-> idxs]}
                                ELSE rng_memo
                 /\ poison_log' = Append(poison_log,
                                     LogEntry(poison_log, "apply_to_corpus", poisoner, len,
                                              draws, idxs))
  /\ calls' = calls + 1
  /\ done' = "apply_to_corpus"
  /\ UNCHANGED <<poison_cfg, poisoner, corpus, retriever, bm25_out, dense_out, k,
                 retrieved, verification, decisionVars, verifierVars, runVars>>

NextPoison == PoisonerApply \/ PoisonerApplyToCorpus

SpecPoison == InitPoison /\ [][NextPoison]_vars

----------------------------------------------------------------------------
(* Claims about the poison injector *)

Poisoned == done \in {"apply", "apply_to_corpus"}

\* positions at which the last call's result differs from its input
Corrupted ==
  {i \in 1..Len(lists[result]) : objs[lists[result][i]] # objs[lists[arg][i]]
                                  /\ Get(objs[lists[result][i]], "is_poison", PyFalse)
                                       \in {PyTrue, PyStr1}}

\* round(x) of a non-negative number: to the nearest integer, halves to even
Round(r) ==
  LET q == r.n \div r.d
      rem == r.n % r.d
  IN  IF 2 * rem < r.d THEN q
      ELSE IF 2 * rem > r.d THEN q + 1
      ELSE IF q % 2 = 0 THEN q ELSE q + 1

\* C9 as stated: with rate r > 0 (and the contradictory_passage strategy) on
\* N passages, apply and apply_to_corpus both corrupt exactly
\* min(N, max(1, round(r * N))) positions.
C9_Original ==
  (Poisoned /\ RGt(poisoner.rate, Zero) /\ poisoner.strategy = "contradictory_passage") =>
    Cardinality(Corrupted) =
      Min(Len(lists[arg]), Max(1, Round(Times(Len(lists[arg]), poisoner.rate))))

\* C10: with a configured rate <= 0, or with poisoning disabled in the
\* configuration, apply and apply_to_corpus return the very list they were
\* given and leave every list and every passage as it was (nothing is
\* corrupted, nothing gains is_poison).
C10_RateZeroIdentity ==
  [][(done' \in {"apply", "apply_to_corpus"} /\ calls' = calls + 1
       /\ (RGe(Zero, poison_cfg.rate) \/ ~poison_cfg.enabled))
     => (result' = arg' /\ objs' = objs /\ lists' = lists)]_vars

\* C10 witness: poisoning disabled with a positive configured rate, apply
\* called on a non-empty list and returning that same list
C10_Witness ==
  /\ done = "apply"
  /\ ~poison_cfg.enabled /\ RGt(poison_cfg.rate, Zero)
  /\ Len(lists[arg]) > 0
  /\ result = arg

\* the calls of the log that drew positions
Drawing == {i \in 1..Len(poison_log) : poison_log[i].rng # 0}

C12_Original ==
  \A i, j \in Drawing : poison_log[i].rng = poison_log[j].rng

\* the passage at position i of the list given to the last call, and of the
\* list it returned
Before(i) == objs[lists[arg][i]]

After(i) == objs[lists[result][i]]

\* C13 as stated: every passage selected by apply or apply_to_corpus comes
\* out with its text replaced by the contradicted variant, is_poison = True,
\* source = "poison" and "__POISON" appended to its doc_id.
C13_Original ==
  Poisoned =>
    \A i \in selected :
      /\ After(i)["text"] = make_contradictory_passage(Before(i)["text"])
      /\ Get(After(i), "is_poison", "") = PyTrue
      /\ Get(After(i), "source", "") = "poison"
      /\ After(i)["doc_id"] = Before(i)["doc_id"] \o "__POISON"

\* C14 as stated: with rate > 0 the output has the length of the input and
\* every passage at a position outside the selected set has the same fields
\* with the same values as the input passage at that position.
C14_Original ==
  (Poisoned /\ RGt(poisoner.rate, Zero)) =>
    /\ Len(lists[result]) = Len(lists[arg])
    /\ \A i \in (1..Len(lists[arg])) \ selected :
         /\ DOMAIN After(i) = DOMAIN Before(i)
         /\ \A f \in DOMAIN Before(i) : After(i)[f] = Before(i)[f]

----------------------------------------------------------------------------
(* The pipeline: RAGTrustPipeline.__init__ and run_one *)

\* _score(p) of run_one: float(p.get("score", 0.0))
score_of(p) == IF "score" \in DOMAIN p THEN PyFloat(p["score"]) ELSE Zero

\* a plausible slip: reverse=True forgotten, lowest score first (equal scores
\* keep their order)
MutRerankAscending(passages) ==
  LET n == Len(passages)
      sorted == SortedDesc([i \in 1..n |->
                              [s |-> score_of(passages[n + 1 - i]), p |-> passages[n + 1 - i]]])
  IN  [i \in 1..n |-> sorted[n + 1 - i].p]

\* ranked = sorted(poisoned, key=_score, reverse=True)
Rerank(passages) ==
  LET sorted == SortedDesc([i \in 1..Len(passages) |->
                              [s |-> score_of(passages[i]), p |-> passages[i]]])
  IN  [i \in 1..Len(sorted) |-> sorted[i].p]

\* to_verify = ranked[:min(top_n_verify, len(ranked))]
ToVerify(poisoned, top_n) ==
  LET ranked == Rerank(poisoned)
  IN  Prefix(ranked, Min(top_n, Len(ranked)))

\* the scorer of the pipeline runs: NLIModel.score as a function of the premise
StubScore(premise) ==
  IF Len(premise) > 0 /\ premise[1] = "It"
  THEN [entailment |-> Rat(6, 20), contradiction |-> Rat(11, 20), neutral |-> Rat(3, 20)]
  ELSE [entailment |-> Rat(11, 20), contradiction |-> Rat(6, 20), neutral |-> Rat(3, 20)]

\* MultiSourceVerifier.analyze with that scorer
analyze(self, query, passages, m) ==
  IF m = "multi"
  THEN analyze_multi(self, query, passages, StubScore(aggregated_text(self, passages)))
  ELSE analyze_single(self, query, passages,
                      [i \in 1..Len(passages) |-> StubScore(Get(passages[i], "text", <<>>))])

\* the nli.score calls of analyze
analyze_calls(self, query, passages, m) ==
  IF m = "multi" THEN multi_calls(self, query, passages)
  ELSE single_calls(query, passages)

\* "if self.cfg.poisoning.enabled and self.cfg.poisoning.target == ..."
CorpusPoisoning(poisoning) == poisoning.enabled /\ poisoning.target = "corpus"

\* a plausible slip: the target test of run_one dropped
MutRetrievalSetAlways(poisoning) == poisoning.enabled

RetrievalSetPoisoning(poisoning) == poisoning.enabled /\ poisoning.target = "retrieval_set"

----------------------------------------------------------------------------
(* Inputs of the pipeline *)

\* run_one calls per pipeline
MaxQueries == 2

\* poisoning targets: the two known ones and an unknown one
Targets == {"corpus", "retrieval_set", "index"}

\* what the two retrieval sources rank for a query, best first, as (score,
\* position in the corpus) pairs; each source returns its first k entries
Rankings ==
  {[bm25 |-> <<<<2, 1>>, <<1, 2>>, <<0, 3>>>>, dense |-> <<<<1, 2>>, <<1, 1>>, <<0, 3>>>>],
   [bm25 |-> <<<<2, 3>>, <<2, 2>>, <<1, 1>>>>, dense |-> <<<<2, 2>>, <<1, 3>>, <<1, 1>>>>]}

\* the first kk entries of a ranking over the list lst, as (score, dict identity)
SourceOutput(ranking, lst, kk) ==
  [i \in 1..Min(kk, Len(ranking)) |-> <<Rat(ranking[i][1], 1), lst[ranking[i][2]]>>]

\* values of cfg.verification.top_n_verify: one passage, and the default
TopNs == {1, 5}

\* values of cfg.seed of a pipeline
PipelineSeeds == {42}

InitPipeline ==
  /\ objs = Corpus
  /\ lists = << [i \in 1..Len(Corpus) |-> i] >>
  /\ corpus = 1
  /\ retriever = [use_bm25 |-> TRUE, use_dense |-> TRUE]
  /\ bm25_out = <<>>
  /\ dense_out = <<>>
  /\ k \in 1..MaxK
  /\ retrieved = 0
  /\ poison_cfg \in [enabled : BOOLEAN, rate : Rates, strategy : Strategies,
                     target : Targets]
  /\ poisoner = [strategy |-> "contradictory_passage", rate |-> Rat(0, 1), seed |-> 0]
  /\ rng_memo = {}
  /\ arg = 0
  /\ selected = {}
  /\ result = 0
  /\ calls = 0
  /\ poison_log = <<>>
  /\ top_n_verify \in TopNs
  /\ queries = 0
  /\ error = "none"
  /\ batch = "none"
  /\ examples = <<>>
  /\ rows = <<>>
  /\ summary = [present |-> FALSE, value |-> EmptyDict]
  /\ cfg = EmptyDict
  /\ cfg_rule = EmptyDict
  /\ rule = "none"
  /\ subset_n = 0
  /\ pipelines = 0
  /\ run_fn_calls = <<>>
  /\ verification = EmptyDict
  /\ decision_params = [present |-> FALSE, value |-> EmptyDict]
  /\ label = "none"
  /\ VerifierIdle
  /\ done = "init"

\* RAGTrustPipeline(cfg, lists[corpus]): the Poisoner is built, the corpus is
\* poisoned when the target is "corpus", the retriever is built on the result
Construct ==
  /\ done = "init"
  /\ \E seed \in PipelineSeeds :
       LET self == PoisonerOfCfg(poison_cfg, seed)
           applies == CorpusPoisoning(poison_cfg)
           len == Len(lists[corpus])
           draws == applies /\ RGt(self.rate, Zero)
           n == corpus_count(len, self.rate)
       IN  /\ poisoner' = self
           /\ \E idxs \in (IF draws THEN Sample(rng_memo, seed, len, n) ELSE {{}}) :
                LET r == IF applies THEN apply_to_corpus(self, objs, lists, corpus, idxs)
                         ELSE [objs |-> objs, lists |-> lists, result |-> corpus]
                IN  /\ objs' = r.objs
                    /\ lists' = r.lists
                    /\ corpus' = r.result
                    /\ selected' = idxs
                    /\ arg' = IF applies THEN corpus ELSE arg
                    /\ result' = IF applies THEN r.result ELSE result
                    /\ calls' = IF applies THEN calls + 1 ELSE calls
                    /\ rng_memo' = IF draws
                                   THEN rng_memo \cup {[args |-> <<seed, len, n>>, idxs |-> idxs]}
                                   ELSE rng_memo
                    /\ poison_log' =
                         IF applies
                         THEN Append(poison_log,
                                     LogEntry(poison_log, "apply_to_corpus", self, len, draws,
                                              idxs))
                         ELSE poison_log
  /\ verifier' = [thr_con |-> Rat(11, 20), thr_ent |-> Rat(11, 20), top_n_multi |-> 5]
  /\ done' = "construct"
  /\ UNCHANGED <<poison_cfg, retriever, bm25_out, dense_out, k, retrieved, verification,
                 decisionVars, to_verify, mode, nli_calls, runVars>>

\* pipeline.run_one(Query, verifier_mode=m): retrieval, poisoning of the
\* retrieved list when the target is "retrieval_set", reranking, verification
RunOne ==
  /\ done \in {"construct", "run_one"}
  /\ queries < MaxQueries
  /\ \E m \in Modes, ranking \in Rankings :
       LET bm == SourceOutput(ranking.bm25, lists[corpus], k)
           dn == SourceOutput(ranking.dense, lists[corpus], k)
           got == HeapAlloc(objs, lists, retrieve(ScoredOf(retriever, bm, dn), k, objs))
           applies == RetrievalSetPoisoning(poison_cfg)
           len == Len(got.lists[got.result])
           draws == /\ applies
                    /\ RGt(poisoner.rate, Zero)
                    /\ poisoner.strategy = "contradictory_passage"
           n == inject_count(len, poisoner.rate)
       IN  \E idxs \in (IF draws THEN Sample(rng_memo, poisoner.seed, len, n) ELSE {{}}) :
             LET r == IF applies THEN apply(poisoner, got.objs, got.lists, got.result, idxs)
                      ELSE got
                 tv == ToVerify(Deref(r.objs, r.lists, r.result), top_n_verify)
             IN  /\ bm25_out' = bm
                 /\ dense_out' = dn
                 /\ objs' = r.objs
                 /\ lists' = r.lists
                 /\ retrieved' = got.result
                 /\ result' = r.result
                 /\ arg' = IF applies THEN got.result ELSE arg
                 /\ selected' = idxs
                 /\ calls' = IF applies THEN calls + 1 ELSE calls
                 /\ rng_memo' = IF draws
                                THEN rng_memo \cup
                                       {[args |-> <<poisoner.seed, len, n>>, idxs |-> idxs]}
                                ELSE rng_memo
                 /\ poison_log' =
                      IF applies
                      THEN Append(poison_log,
                                  LogEntry(poison_log, "apply", poisoner, len, draws, idxs))
                      ELSE poison_log
                 /\ to_verify' = tv
                 /\ mode' = m
                 /\ verification' = analyze(verifier, Query, tv, m)
                 /\ nli_calls' = analyze_calls(verifier, Query, tv, m)
  /\ queries' = queries + 1
  /\ done' = "run_one"
  /\ UNCHANGED <<corpus, retriever, k, poison_cfg, poisoner, verifier, decisionVars,
                 top_n_verify, error, batch, examples, rows, summary, cfg, cfg_rule, rule,
                 subset_n, pipelines, run_fn_calls>>

NextPipeline == Construct \/ RunOne

SpecPipeline == InitPipeline /\ [][NextPipeline]_vars

----------------------------------------------------------------------------
(* Claims about the pipeline *)

LoggedOps == [i \in 1..Len(poison_log) |-> poison_log[i].op]

\* the doc_ids of the corpus as handed in
CorpusDocIds == {Corpus[i]["doc_id"] : i \in 1..Len(Corpus)}

\* C16: with poisoning enabled the target selects the one application point:
\* "corpus" means apply_to_corpus once, at construction, and never apply;
\* "retrieval_set" means apply once per query and never apply_to_corpus (any
\* other target: neither); so the two are never both used in one run, and
\* every passage handed to the verifier carries the suffix "__POISON" at
\* most once.
C16_OneApplicationPoint ==
  done # "init" =>
    /\ (poison_cfg.enabled /\ poison_cfg.target = "corpus") =>
         LoggedOps = <<"apply_to_corpus">>
    /\ (poison_cfg.enabled /\ poison_cfg.target = "retrieval_set") =>
         LoggedOps = [i \in 1..queries |-> "apply"]
    /\ (~poison_cfg.enabled \/ poison_cfg.target \notin {"corpus", "retrieval_set"}) =>
         LoggedOps = <<>>
    /\ \A i \in 1..Len(to_verify) :
         \E d \in CorpusDocIds : to_verify[i]["doc_id"] \in {d, d \o "__POISON"}

\* C16 witness: a corpus-poisoned pipeline has answered two queries and a
\* corrupted passage reached the verifier
C16_Witness ==
  /\ done = "run_one"
  /\ queries = 2
  /\ poison_cfg.enabled /\ poison_cfg.target = "corpus"
  /\ \E i \in 1..Len(to_verify) :
       \E d \in CorpusDocIds : to_verify[i]["doc_id"] = d \o "__POISON"

\* the list run_one reranks (the retrieved list, or its poisoned copy) and
\* the list fusion returned, as passages
PoisonedPassages == Deref(objs, lists, result)

RetrievedPassages == Deref(objs, lists, retrieved)

\* C26: the verifier receives min(top_n_verify, number of post-poison
\* passages) passages, in non-increasing score order; they are the passages
\* at the first positions of the post-poison list, no passage left out has a
\* higher score than one that was kept, and every post-poison passage has
\* the score fusion gave to the passage at its position, corrupted or not (so
\* the positions kept are those kept without corruption).
C26_RerankAfterPoisoning ==
  done = "run_one" =>
    LET n == Min(top_n_verify, Len(PoisonedPassages))
    IN  /\ Len(to_verify) = n
        /\ \A i, j \in 1..n : i < j => RGe(score_of(to_verify[i]), score_of(to_verify[j]))
        /\ \A i \in 1..n : to_verify[i] = PoisonedPassages[i]
        /\ \A i \in 1..n, j \in (n + 1)..Len(PoisonedPassages) :
             RGe(score_of(to_verify[i]), score_of(PoisonedPassages[j]))
        /\ Len(PoisonedPassages) = Len(RetrievedPassages)
        /\ \A i \in 1..Len(PoisonedPassages) :
             /\ "score" \in DOMAIN PoisonedPassages[i]
             /\ PoisonedPassages[i]["score"] = RetrievedPassages[i]["score"]
        /\ \A i \in 1..n :
             KeyOf(ToVerify(RetrievedPassages, top_n_verify)[i]) = KeyOf(RetrievedPassages[i])

\* C26 witness: of two retrieved passages with different scores only the
\* best is verified, and it is the one the query's poisoning corrupted
C26_Witness ==
  /\ done = "run_one"
  /\ top_n_verify = 1
  /\ Len(PoisonedPassages) = 2
  /\ RetrievalSetPoisoning(poison_cfg)
  /\ 1 \in selected
  /\ Len(to_verify) = 1
  /\ to_verify[1]["doc_id"] = RetrievedPassages[1]["doc_id"] \o "__POISON"
  /\ RGt(score_of(to_verify[1]), score_of(PoisonedPassages[2]))

\* C17 as stated: with rate > 0 and a strategy other than
\* "contradictory_passage", apply and apply_to_corpus raise (they neither
\* return the passages unmodified nor corrupt them).
C17_Original ==
  (Poisoned /\ RGt(poisoner.rate, Zero) /\ poisoner.strategy # "contradictory_passage") =>
    error # "none"

\* a poison rate outside [0, 1], an unknown strategy or an unknown target
MalformedCfg ==
  \/ RGt(Zero, poison_cfg.rate)
  \/ RGt(poison_cfg.rate, One)
  \/ poison_cfg.strategy # "contradictory_passage"
  \/ poison_cfg.target \notin {"corpus", "retrieval_set"}

\* C18 as stated: constructing a pipeline from a malformed configuration
\* raises ConfigurationError, so every query runs under a well-formed
\* configuration and with a known verifier mode.
C18_Original ==
  /\ (done = "construct" /\ MalformedCfg) => error = "ConfigurationError"
  /\ done = "run_one" => (~MalformedCfg /\ mode \in {"single", "multi"})

----------------------------------------------------------------------------
(* The batch loops: run_fever and run_hotpot *)

\* fever_accuracy
fever_accuracy(pred, gold) == IF pred = gold THEN One ELSE Zero

\* s.strip().lower() of an answer (a text)
Normalise(t) == [i \in 1..Len(Strip(t)) |-> LowerWord(Strip(t)[i])]

\* hotpot_exact_match
hotpot_exact_match(pred, gold) ==
  IF Normalise(pred) = Normalise(gold) THEN One ELSE Zero

\* hallucination_proxy starts with v = verification["votes"], which raises
\* KeyError on a record without votes (v is not used afterwards)
hallucination_proxy_raises(v) == "votes" \notin DOMAIN v

\* a plausible slip: the decision engine's default min_strength as the threshold
MutProxyMinStrength(v) ==
  IF RGe(Get(v, "contradiction_strength", Zero), Rat(3, 10)) THEN One ELSE Zero

\* hallucination_proxy, when it returns: contradiction_strength >= 0.4
hallucination_proxy(v) ==
  IF RGe(Get(v, "contradiction_strength", Zero), Rat(2, 5)) THEN One ELSE Zero

\* number of entries of a sequence equal to x
Count(seq, x) == Cardinality({i \in 1..Len(seq) : seq[i] = x})

\* self_consistency_score: share of the most frequent normalised generation
self_consistency_score(generations) ==
  IF Len(generations) = 0 THEN Zero
  ELSE LET norm == [i \in 1..Len(generations) |-> Normalise(generations[i])]
           top == CHOOSE c \in {Count(norm, norm[i]) : i \in 1..Len(norm)} :
                    \A i \in 1..Len(norm) : Count(norm, norm[i]) <= c
       IN  Rat(top, Len(norm))

\* max(stripped, key=count): the first stripped generation of the highest count
majority_answer(generations) ==
  LET stripped == [i \in 1..Len(generations) |-> Strip(generations[i])]
      first == CHOOSE i \in 1..Len(stripped) :
                 /\ \A j \in 1..Len(stripped) :
                      Count(stripped, stripped[j]) <= Count(stripped, stripped[i])
                 /\ \A j \in 1..(i - 1) :
                      Count(stripped, stripped[j]) < Count(stripped, stripped[i])
  IN  stripped[first]

\* the row run_fever appends for example i
fever_row(self_params, compute_sc, i, gold, out) ==
  LET pred == predict_label_from_verification(self_params, out.verification)
      row == [id |-> i, pred |-> pred, gold |-> gold,
              acc |-> fever_accuracy(pred, gold),
              hallucination |-> hallucination_proxy(out.verification)]
  IN  IF compute_sc /\ Len(out.generations) > 0
      THEN Put(row, "self_consistency", self_consistency_score(out.generations))
      ELSE row

\* hotpot_yesno_from_verifier_label, the answers as texts
hotpot_yesno_from_verifier_label(lab) ==
  IF lab = SUPPORTS THEN <<"yes">>
  ELSE IF lab = REFUTES THEN <<"no">>
  ELSE <<"unknown">>

\* the first value run_hotpot gives pred_answer ("if not cfg.generation.enabled:
\* ... else: ..."), which the unconditional pred_answer = "" after it replaces
\* before any use
hotpot_first_answer(self_params, generation_enabled, out) ==
  IF ~generation_enabled
  THEN hotpot_yesno_from_verifier_label(
         predict_label_from_verification(self_params, out.verification))
  ELSE IF Len(out.generations) > 0 THEN majority_answer(out.generations)
  ELSE <<>>

\* the row run_hotpot appends for example i: pred_answer is the majority
\* generation, or "" when there is none
hotpot_row(compute_sc, i, gold, out) ==
  LET pred_answer == IF Len(out.generations) > 0 THEN majority_answer(out.generations)
                     ELSE <<>>
      row == [id |-> i, pred |-> pred_answer, gold |-> gold,
              acc |-> hotpot_exact_match(pred_answer, gold),
              hallucination |-> hallucination_proxy(out.verification)]
  IN  IF compute_sc /\ Len(out.generations) > 0
      THEN Put(row, "self_consistency", self_consistency_score(out.generations))
      ELSE row

RECURSIVE RSum(_)
\* sum(vals)
RSum(vals) == IF Len(vals) = 0 THEN Zero ELSE RAdd(vals[1], RSum(Tail(vals)))

\* a plausible slip: a row without the metric counted as a zero
MutAggregateMissingAsZero(results) ==
  LET has(key) == \E i \in 1..Len(results) : key \in DOMAIN results[i]
      keys == {key \in {"acc", "hallucination", "self_consistency"} : has(key)}
  IN  IF Len(results) = 0 THEN EmptyDict
      ELSE [key \in keys |->
              LET total == RSum([i \in 1..Len(results) |-> Get(results[i], key, Zero)])
              IN  Rat(total.n, total.d * Len(results))]

\* aggregate(results): the mean of each metric over the rows that carry it
aggregate(results) ==
  LET vals(key) == SelectSeq([i \in 1..Len(results) |->
                                IF key \in DOMAIN results[i]
                                THEN [present |-> TRUE, value |-> results[i][key]]
                                ELSE [present |-> FALSE, value |-> Zero]],
                             LAMBDA x : x.present)
      keys == {key \in {"acc", "hallucination", "self_consistency"} : Len(vals(key)) > 0}
  IN  IF Len(results) = 0 THEN EmptyDict
      ELSE [key \in keys |->
              LET total == RSum([i \in 1..Len(vals(key)) |-> vals(key)[i].value])
              IN  Rat(total.n, total.d * Len(vals(key)))]

----------------------------------------------------------------------------
(* Inputs of the batch loops *)

\* examples per batch
MaxExamples == 2

FeverGolds == {SUPPORTS, REFUTES, NOT_ENOUGH_INFO}

\* gold answers of HotpotQA yes/no questions, as texts
HotpotGolds == {<<"yes">>, <<"No">>}

\* what the generator returned for one example: nothing (generation off),
\* or three samples
GenerationLists ==
  {<<>>, << <<"no">>, <<" ", "Yes">>, <<"yes">> >>, << <<"no">>, <<"yes">>, <<"no">> >>}

\* the passage lists verified for one example: none, one clean passage, a
\* clean and a corrupted one
BatchEvidence ==
  {<<>>,
   <<Corpus[1]>>,
   <<Corpus[1], Put(Corpus[2], "text", make_contradictory_passage(Corpus[2]["text"]))>>}

\* what run_one may return to the loop under the verifier self and mode m
RunOutputs(self, m) ==
  {[verification |-> analyze(self, Query, ps, m), generations |-> g] :
     ps \in BatchEvidence, g \in GenerationLists}

InitBatch ==
  /\ batch \in {"fever", "hotpot"}
  /\ examples \in UNION {[1..n -> IF batch = "fever" THEN FeverGolds ELSE HotpotGolds] :
                            n \in 0..MaxExamples}
  /\ rows = <<>>
  /\ summary = [present |-> FALSE, value |-> EmptyDict]
  /\ error = "none"
  /\ top_n_verify = 5
  /\ queries = 0
  /\ cfg = EmptyDict
  /\ cfg_rule = EmptyDict
  /\ rule = "none"
  /\ subset_n = 0
  /\ pipelines = 0
  /\ run_fn_calls = <<>>
  /\ verification = EmptyDict
  /\ decision_params = [present |-> FALSE, value |-> EmptyDict]
  /\ label = "none"
  /\ VerifierIdle
  /\ FusionIdle
  /\ PoisonIdle
  /\ done = "init"

\* the loop is at an example: nothing was raised and examples remain
AtExample ==
  /\ done \in {"init", "row"}
  /\ error = "none"
  /\ Len(rows) < Len(examples)

\* one iteration of the loop in which every external call returns: run_one
\* (verifier_mode "single" in run_fever, "multi" in run_hotpot), the
\* prediction, the metrics, rows.append(row)
BatchRow ==
  /\ AtExample
  /\ LET i == Len(rows) + 1
         m == IF batch = "fever" THEN "single" ELSE "multi"
     IN  \E out \in RunOutputs(verifier, m) :
           /\ verification' = out.verification
           /\ mode' = m
           /\ rows' = Append(rows,
                             IF batch = "fever"
                             THEN fever_row(decision_params, TRUE, i, examples[i], out)
                             ELSE hotpot_row(TRUE, i, examples[i], out))
  /\ queries' = queries + 1
  /\ done' = "row"
  /\ UNCHANGED <<decisionVars, verifier, to_verify, nli_calls, heapVars, fusionVars,
                 poisonVars, top_n_verify, error, batch, examples, summary, cfg, cfg_rule,
                 rule, subset_n, pipelines, run_fn_calls>>

\* one iteration in which an external call of run_one (retrieval, scoring,
\* generation) raises: nothing in the loop catches it, so it leaves run_fever
\* or run_hotpot, and rows and the summary are lost with the call
BatchRaise ==
  /\ AtExample
  /\ error' = "ExternalProviderError"
  /\ done' = "raised"
  /\ UNCHANGED <<verification, decisionVars, verifierVars, heapVars, fusionVars,
                 poisonVars, top_n_verify, queries, batch, examples, rows, summary, cfg,
                 cfg_rule, rule, subset_n, pipelines, run_fn_calls>>

\* the loop is over: return {"summary": aggregate(rows), "rows": rows}
BatchReturn ==
  /\ done \in {"init", "row"}
  /\ error = "none"
  /\ Len(rows) = Len(examples)
  /\ summary' = [present |-> TRUE, value |-> aggregate(rows)]
  /\ done' = "return"
  /\ UNCHANGED <<verification, decisionVars, verifierVars, heapVars, fusionVars,
                 poisonVars, top_n_verify, queries, error, batch, examples, rows, cfg,
                 cfg_rule, rule, subset_n, pipelines, run_fn_calls>>

NextBatch == BatchRow \/ BatchRaise \/ BatchReturn

SpecBatch == InitBatch /\ [][NextBatch]_vars

\* C19 as stated: a failure of an external call during one example never
\* leaves the batch loop (it is caught, recorded, and the loop goes on), and
\* the summary the batch returns reports the count of failed examples.
C19_Original ==
  /\ error = "none"
  /\ summary.present => "failed" \in DOMAIN summary.value

\* C28 as stated: in run_hotpot with generation disabled (no generations),
\* the row's predicted answer is the one derived from the verifier label
\* ("yes" for SUPPORTS, "no" for REFUTES, "unknown" otherwise) and acc is
\* the exact match of that answer with the gold answer.
C28_Original ==
  (/\ done = "row"
   /\ batch = "hotpot"
   /\ "self_consistency" \notin DOMAIN rows[Len(rows)]) =>
    LET row == rows[Len(rows)]
        out == [verification |-> verification, generations |-> <<>>]
        answer == hotpot_first_answer(decision_params, FALSE, out)
    IN  /\ row["pred"] = answer
        /\ row["acc"] = hotpot_exact_match(answer, row["gold"])

----------------------------------------------------------------------------
(* The ablation: run_decision_rule_ablation *)

\* DECISION_RULES, and the order in which rules.items() yields it
DECISION_RULES ==
  [strict |-> [entailment_threshold |-> Rat(8, 20), contradiction_threshold |-> Rat(8, 20)],
   balanced |-> [entailment_threshold |-> Rat(6, 20), contradiction_threshold |-> Rat(6, 20)],
   conservative |->
     [entailment_threshold |-> Rat(8, 20), contradiction_threshold |-> Rat(9, 20)]]

RuleOrder == <<"strict", "balanced", "conservative">>

\* a plausible slip: the verification section rebuilt from its defaults with
\* the two thresholds, instead of copied from the base configuration
MutCfgRuleFreshVerification(base, params) ==
  [base EXCEPT !.verification =
     [nli_model |-> "roberta-large-mnli",
      contradiction_threshold |-> params.contradiction_threshold,
      entailment_threshold |-> params.entailment_threshold,
      top_n_verify |-> 5]]

\* cfg_rule = replace(cfg, verification=replace(cfg.verification, ...))
cfg_rule_of(base, params) ==
  [base EXCEPT !.verification =
     [base.verification EXCEPT
        !.entailment_threshold = params.entailment_threshold,
        !.contradiction_threshold = params.contradiction_threshold]]

\* the verifier RAGTrustPipeline.__init__ builds from a configuration
VerifierOfCfg(c) ==
  [thr_con |-> c.verification.contradiction_threshold,
   thr_ent |-> c.verification.entailment_threshold,
   top_n_multi |-> 5]

\* the rows of run_fever over the examples golds, outs[i] being what run_one
\* returned for the i-th
fever_rows(self_params, golds, outs) ==
  [i \in 1..Len(golds) |-> fever_row(self_params, TRUE, i, golds[i], outs[i])]

\* subset = examples[:n]
Subset(exs, n) == Prefix(exs, n)

\* a plausible slip: the pipeline built once and kept for the later variants
MutPipelineReused(built) == IF built = 0 THEN 1 ELSE built

\* pipeline_rule = RAGTrustPipeline(cfg_rule, corpus): the identity of the
\* new instance, built being the number of instances built before
NewPipeline(built) == built + 1

\* the verification run_one computes from the list retrieved_ fusion returned:
\* poisoning of the retrieved list at the positions idxs when the target is
\* "retrieval_set", reranking, the cut to top_n, analyze
run_one_verification(self_verifier, self_poisoner, poisoning, top_n, retrieved_, idxs, m) ==
  LET got == HeapAlloc(<<>>, <<>>, retrieved_)
      r == IF RetrievalSetPoisoning(poisoning)
           THEN apply(self_poisoner, got.objs, got.lists, got.result, idxs)
           ELSE got
  IN  analyze(self_verifier, Query, ToVerify(Deref(r.objs, r.lists, r.result), top_n), m)

----------------------------------------------------------------------------
(* Inputs of the ablation *)

\* calls of run_decision_rule_ablation per run
MaxAblations == 2

\* the base configuration: thresholds, top_n_verify and the NLI model vary
BaseCfgs ==
  {[seed |-> 42,
    retrieval |-> [k |-> 10, use_bm25 |-> TRUE, use_dense |-> TRUE],
    poisoning |-> [enabled |-> TRUE, rate |-> Rat(1, 5),
                   strategy |-> "contradictory_passage", target |-> "retrieval_set"],
    verification |-> [nli_model |-> nm, contradiction_threshold |-> tc,
                      entailment_threshold |-> te, top_n_verify |-> tn],
    generation |-> [enabled |-> FALSE]] :
     nm \in {"roberta-large-mnli", "outputs/nli_fever_ft"},
     tc \in Thresholds, te \in Thresholds, tn \in TopNs}

\* what fusion returns for the claim of an example (the retrieval sources
\* are deterministic and do not depend on the thresholds): nothing, one
\* passage, two passages
AblationRetrieved ==
  {<<>>,
   <<Put(Corpus[1], "score", PyStr(Rat(2, 1)))>>,
   <<Put(Corpus[1], "score", PyStr(Rat(2, 1))), Put(Corpus[2], "score", PyStr(Rat(1, 1)))>>}

\* the positions of those lists
AblationPositions == UNION {1..Len(r) : r \in AblationRetrieved}

\* an example of the ablation: its gold label and the passages retrieved for
\* its claim
AblationExamples == [gold : {SUPPORTS, REFUTES}, evidence : AblationRetrieved]

\* values of the argument n: one example, and the default
SubsetSizes == {1, 200}

InitAblation ==
  /\ cfg \in BaseCfgs
  /\ cfg_rule = EmptyDict
  /\ rule = "none"
  /\ subset_n \in SubsetSizes
  /\ pipelines = 0
  /\ run_fn_calls = <<>>
  /\ batch = "none"
  /\ examples \in UNION {[1..n -> AblationExamples] : n \in 0..MaxExamples}
  /\ rows = <<>>
  /\ summary = [present |-> FALSE, value |-> EmptyDict]
  /\ error = "none"
  /\ top_n_verify = 5
  /\ queries = 0
  /\ verification = EmptyDict
  /\ decision_params = [present |-> FALSE, value |-> EmptyDict]
  /\ label = "none"
  /\ VerifierIdle
  /\ FusionIdle
  /\ PoisonIdle
  /\ done = "init"

\* position of the current rule in RuleOrder (0 before the first)
RuleIndex == IF rule = "none" THEN 0 ELSE CHOOSE i \in 1..Len(RuleOrder) : RuleOrder[i] = rule

\* run_decision_rule_ablation(cfg, corpus, examples, run_fever, n=subset_n)
\* is entered: subset = examples[:n]; results = {}
AblationCall ==
  /\ done \in {"init", "return"}
  /\ Len(run_fn_calls) < MaxAblations * Len(RuleOrder)
  /\ rule' = "none"
  /\ summary' = [present |-> FALSE, value |-> EmptyDict]
  /\ done' = "call"
  /\ UNCHANGED <<verification, decisionVars, verifierVars, heapVars, fusionVars, poisonVars,
                 top_n_verify, queries, error, batch, examples, rows, cfg, cfg_rule,
                 subset_n, pipelines, run_fn_calls>>

\* one iteration of "for name, params in rules.items()": the configuration
\* of the variant is derived, a new pipeline is built from it (it has no
\* decision_params attribute), run_fn = run_fever runs over the subset with
\* generation off (each run_one poisons the retrieved list with a sampler
\* made from the seed), and results[name] takes the summary
AblationVariant ==
  /\ done \in {"call", "variant"}
  /\ RuleIndex < Len(RuleOrder)
  /\ LET name == RuleOrder[RuleIndex + 1]
         derived == cfg_rule_of(cfg, DECISION_RULES[name])
         pipeline_rule == NewPipeline(pipelines)
         pipeline_verifier == VerifierOfCfg(derived)
         pipeline_poisoner == PoisonerOfCfg(derived.poisoning, derived.seed)
         pipeline_params == [present |-> FALSE, value |-> EmptyDict]
         subset == Subset(examples, subset_n)
         golds == [i \in 1..Len(subset) |-> subset[i].gold]
         lens == {Len(subset[i].evidence) : i \in 1..Len(subset)}
         draws == /\ RetrievalSetPoisoning(derived.poisoning)
                  /\ RGt(pipeline_poisoner.rate, Zero)
                  /\ pipeline_poisoner.strategy = "contradictory_passage"
         count(len) == inject_count(len, pipeline_poisoner.rate)
         drawn == Cardinality({i \in 1..Len(poison_log) : poison_log[i].rng # 0})
     IN  \E draw \in [lens -> SUBSET AblationPositions] :
           /\ \A len \in lens :
                draw[len] \in (IF draws
                               THEN Sample(rng_memo, pipeline_poisoner.seed, len, count(len))
                               ELSE {{}})
           /\ LET outs == [i \in 1..Len(subset) |->
                             [verification |->
                                run_one_verification(pipeline_verifier, pipeline_poisoner,
                                                     derived.poisoning,
                                                     derived.verification.top_n_verify,
                                                     subset[i].evidence,
                                                     draw[Len(subset[i].evidence)], "single"),
                              generations |-> <<>>]]
                  res == aggregate(fever_rows(pipeline_params, golds, outs))
              IN  /\ rule' = name
                  /\ cfg_rule' = derived
                  /\ pipelines' = pipeline_rule
                  /\ verifier' = pipeline_verifier
                  /\ poison_cfg' = derived.poisoning
                  /\ poisoner' = pipeline_poisoner
                  /\ top_n_verify' = derived.verification.top_n_verify
                  /\ decision_params' = pipeline_params
                  /\ rows' = fever_rows(pipeline_params, golds, outs)
                  /\ summary' = [present |-> FALSE, value |-> Put(summary.value, name, res)]
                  /\ run_fn_calls' = Append(run_fn_calls,
                                            [name |-> name, cfg |-> derived,
                                             pipeline |-> pipeline_rule, subset |-> subset,
                                             summary |-> res])
                  /\ rng_memo' =
                       IF draws
                       THEN rng_memo \cup
                              {[args |-> <<pipeline_poisoner.seed, len, count(len)>>,
                                idxs |-> draw[len]] : len \in lens}
                       ELSE rng_memo
                  /\ poison_log' =
                       IF RetrievalSetPoisoning(derived.poisoning)
                       THEN poison_log \o
                              [i \in 1..Len(subset) |->
                                 [op |-> "apply", seed |-> pipeline_poisoner.seed,
                                  rate |-> pipeline_poisoner.rate,
                                  len |-> Len(subset[i].evidence),
                                  idxs |-> draw[Len(subset[i].evidence)],
                                  rng |-> IF draws THEN drawn + i ELSE 0]]
                       ELSE poison_log
                  /\ calls' = IF RetrievalSetPoisoning(derived.poisoning)
                              THEN calls + Len(subset) ELSE calls
                  /\ batch' = "fever"
                  /\ mode' = "single"
                  /\ queries' = queries + Len(subset)
  /\ done' = "variant"
  /\ UNCHANGED <<cfg, examples, subset_n, error, verification, label, to_verify, nli_calls,
                 heapVars, fusionVars, arg, selected, result>>

\* the loop is over: return results
AblationReturn ==
  /\ done \in {"call", "variant"}
  /\ RuleIndex = Len(RuleOrder)
  /\ summary' = [summary EXCEPT !.present = TRUE]
  /\ done' = "return"
  /\ UNCHANGED <<verification, decisionVars, verifierVars, heapVars, fusionVars, poisonVars,
                 top_n_verify, queries, error, batch, examples, rows, cfg, cfg_rule, rule,
                 subset_n, pipelines, run_fn_calls>>

NextAblation == AblationCall \/ AblationVariant \/ AblationReturn

SpecAblation == InitAblation /\ [][NextAblation]_vars

\* C20: every variant's configuration equals the base configuration in every
\* section but verification, and in every field of verification but the two
\* thresholds, which are those of the variant's rule; the base configuration
\* is never changed; and the pipeline of every variant predicts with the same
\* decision parameters (no decision_params attribute, hence the defaults).
C20_OnlyThresholdsVary ==
  [][/\ cfg' = cfg
     /\ done' = "variant" =>
          /\ DOMAIN cfg_rule' = DOMAIN cfg
          /\ \A f \in DOMAIN cfg \ {"verification"} : cfg_rule'[f] = cfg[f]
          /\ DOMAIN cfg_rule'.verification = DOMAIN cfg.verification
          /\ \A g \in DOMAIN cfg.verification
                       \ {"entailment_threshold", "contradiction_threshold"} :
               cfg_rule'.verification[g] = cfg.verification[g]
          /\ cfg_rule'.verification.entailment_threshold =
               DECISION_RULES[rule'].entailment_threshold
          /\ cfg_rule'.verification.contradiction_threshold =
               DECISION_RULES[rule'].contradiction_threshold
          /\ verifier'.thr_ent = DECISION_RULES[rule'].entailment_threshold
          /\ verifier'.thr_con = DECISION_RULES[rule'].contradiction_threshold
          /\ ~decision_params'.present
          /\ decision_params' = decision_params]_vars

\* C20 witness: the last variant has run over two examples from a base
\* configuration whose verification section differs from the defaults
C20_Witness ==
  /\ done = "variant"
  /\ rule = "conservative"
  /\ cfg.verification.top_n_verify = 1
  /\ cfg.verification.nli_model = "outputs/nli_fever_ft"
  /\ cfg_rule.verification # cfg.verification
  /\ Len(rows) = 2
  /\ DOMAIN summary.value = {"strict", "balanced", "conservative"}

\* the run_fn calls of the c-th call of run_decision_rule_ablation made so far
CallsOf(c) ==
  {i \in 1..Len(run_fn_calls) :
     (c - 1) * Len(RuleOrder) < i /\ i <= c * Len(RuleOrder)}

\* C21: every run_fn call gets a pipeline instance built in its own
\* iteration (no two calls share one), the configuration derived for its
\* variant and the first n examples; each call of the harness calls run_fn
\* once per variant, in the order of the rules; and the mapping returned has
\* exactly the variant names as keys, each with the summary run_fn returned
\* for that variant.
C21_FreshPipelinePerVariant ==
  /\ pipelines = Len(run_fn_calls)
  /\ \A i, j \in 1..Len(run_fn_calls) :
       i # j => run_fn_calls[i].pipeline # run_fn_calls[j].pipeline
  /\ \A c \in 1..MaxAblations : \A i \in CallsOf(c) :
       LET e == run_fn_calls[i]
       IN  /\ e.name = RuleOrder[i - (c - 1) * Len(RuleOrder)]
           /\ e.pipeline = i
           /\ e.cfg.verification.entailment_threshold =
                DECISION_RULES[e.name].entailment_threshold
           /\ e.cfg.verification.contradiction_threshold =
                DECISION_RULES[e.name].contradiction_threshold
           /\ Len(e.subset) = Min(subset_n, Len(examples))
           /\ \A x \in 1..Len(e.subset) : e.subset[x] = examples[x]
  /\ done = "return" =>
       /\ summary.present
       /\ DOMAIN summary.value = DOMAIN DECISION_RULES
       /\ Len(run_fn_calls) % Len(RuleOrder) = 0
       /\ \A i \in CallsOf(Len(run_fn_calls) \div Len(RuleOrder)) :
            summary.value[run_fn_calls[i].name] = run_fn_calls[i].summary

\* C21 witness: the harness has returned from a call with two examples of
\* which n = 1 keeps only the first
C21_Witness ==
  /\ done = "return"
  /\ Len(run_fn_calls) = Len(RuleOrder)
  /\ Len(examples) = 2
  /\ subset_n = 1
  /\ Len(run_fn_calls[1].subset) = 1
  /\ run_fn_calls[3].pipeline # run_fn_calls[1].pipeline

\* C22: whenever the same named variant is run again (a later call of the
\* harness with the same base configuration, seed and examples, the external
\* models answering as before), run_fn returns the summary it returned the
\* first time, whatever variants ran in between.
C22_SameVariantSameSummary ==
  \A i, j \in 1..Len(run_fn_calls) :
    (/\ run_fn_calls[i].name = run_fn_calls[j].name
     /\ run_fn_calls[i].cfg.seed = run_fn_calls[j].cfg.seed
     /\ run_fn_calls[i].subset = run_fn_calls[j].subset)
    => run_fn_calls[i].summary = run_fn_calls[j].summary

\* C22 witness: every variant has run twice over an example with two
\* retrieved passages of which only the best is verified, and the sampler
\* picked that one, so that the summary depends on the draw
C22_Witness ==
  /\ Len(run_fn_calls) = 2 * Len(RuleOrder)
  /\ cfg.verification.top_n_verify = 1
  /\ Len(run_fn_calls[1].subset) > 0
  /\ Len(run_fn_calls[1].subset[1].evidence) = 2
  /\ \E m \in rng_memo : m.args[2] = 2 /\ m.idxs = {1}
  /\ REq(run_fn_calls[Len(run_fn_calls)].summary["hallucination"], One)

----------------------------------------------------------------------------
(* The metrics aggregator on its own *)

\* rows per aggregate call
MaxRows == 3

\* rows carrying any subset of the three metrics
MetricRows ==
  {Restrict([acc |-> a, hallucination |-> One, self_consistency |-> Rat(2, 3)], K) :
     a \in {Zero, One}, K \in SUBSET {"acc", "hallucination", "self_consistency"}}

InitAggregate ==
  /\ rows \in UNION {[1..n -> MetricRows] : n \in 0..MaxRows}
  /\ summary = [present |-> FALSE, value |-> EmptyDict]
  /\ top_n_verify = 5
  /\ queries = 0
  /\ error = "none"
  /\ batch = "none"
  /\ examples = <<>>
  /\ cfg = EmptyDict
  /\ cfg_rule = EmptyDict
  /\ rule = "none"
  /\ subset_n = 0
  /\ pipelines = 0
  /\ run_fn_calls = <<>>
  /\ verification = EmptyDict
  /\ decision_params = [present |-> FALSE, value |-> EmptyDict]
  /\ label = "none"
  /\ VerifierIdle
  /\ FusionIdle
  /\ PoisonIdle
  /\ done = "init"

\* one call aggregate(rows)
Aggregate ==
  /\ done = "init"
  /\ summary' = [present |-> TRUE, value |-> aggregate(rows)]
  /\ done' = "aggregate"
  /\ UNCHANGED <<verification, decisionVars, verifierVars, heapVars, fusionVars, poisonVars,
                 top_n_verify, queries, error, batch, examples, rows, cfg, cfg_rule, rule,
                 subset_n, pipelines, run_fn_calls>>

NextAggregate == Aggregate

SpecAggregate == InitAggregate /\ [][NextAggregate]_vars

\* the rows that carry the metric key
RowsWith(key) == {i \in 1..Len(rows) : key \in DOMAIN rows[i]}

RECURSIVE SumOver(_, _)
\* the sum of the metric key over the rows at the positions P
SumOver(P, key) ==
  IF P = {} THEN Zero
  ELSE LET i == CHOOSE x \in P : TRUE
       IN  RAdd(rows[i][key], SumOver(P \ {i}, key))

\* C23: the result of aggregate holds a metric exactly when some row carries
\* it, its value times the number of rows carrying it is the sum of the
\* metric over those rows (rows without it count on neither side), no other
\* key appears, and no row at all gives the empty mapping.
C23_MeanOverPresent ==
  done = "aggregate" =>
    /\ DOMAIN summary.value \subseteq {"acc", "hallucination", "self_consistency"}
    /\ \A key \in {"acc", "hallucination", "self_consistency"} :
         /\ key \in DOMAIN summary.value <=> RowsWith(key) # {}
         /\ RowsWith(key) # {} =>
              LET total == SumOver(RowsWith(key), key)
              IN  REq(summary.value[key],
                      Rat(total.n, total.d * Cardinality(RowsWith(key))))
    /\ Len(rows) = 0 => summary.value = EmptyDict

\* C23 witness: aggregate([{acc: 1.0}, {acc: 0.0}, {hallucination: 1.0}])
\* returned {acc: 0.5, hallucination: 1.0}
C23_Witness ==
  /\ done = "aggregate"
  /\ rows = <<[acc |-> One], [acc |-> Zero], [hallucination |-> One]>>
  /\ DOMAIN summary.value = {"acc", "hallucination"}
  /\ REq(summary.value["acc"], Rat(1, 2))
  /\ REq(summary.value["hallucination"], One)

----------------------------------------------------------------------------
(* The metrics of one FEVER example *)

\* verification records with any subset of the fields, with and without votes
MetricsInputs ==
  VerificationInputs \cup
  {Put(v, "votes", [entail |-> 0, contradict |-> 0, neutral |-> 0]) : v \in VerificationInputs}

\* the attribute decision_params: absent, or set with one of the min_strength values
MetricsParams ==
  {[present |-> FALSE, value |-> EmptyDict]} \cup
  {[present |-> TRUE,
    value |-> [min_strength |-> m, margin |-> Rat(1, 10), conflict_nei |-> TRUE]] :
     m \in MinStrengths}

InitMetrics ==
  /\ verification \in MetricsInputs
  /\ decision_params \in MetricsParams
  /\ label = "none"
  /\ done = "init"
  /\ VerifierIdle
  /\ FusionIdle
  /\ PoisonIdle
  /\ RunIdle

\* the body of the loop of run_fever from the verification run_one returned
\* (no generations): the prediction, then the row with acc and hallucination;
\* a KeyError of hallucination_proxy leaves the loop before the row is appended
FeverMetrics ==
  /\ done \in {"init", "analyze"}
  /\ label' = predict_label_from_verification(decision_params, verification)
  /\ IF hallucination_proxy_raises(verification)
     THEN /\ error' = "KeyError"
          /\ rows' = rows
     ELSE /\ error' = error
          /\ \E gold \in FeverGolds :
               rows' = Append(rows,
                              fever_row(decision_params, TRUE, Len(rows) + 1, gold,
                                        [verification |-> verification,
                                         generations |-> <<>>]))
  /\ done' = "metrics"
  /\ UNCHANGED <<verification, decision_params, verifierVars, heapVars, fusionVars,
                 poisonVars, top_n_verify, queries, batch, examples, summary, cfg, cfg_rule,
                 rule, subset_n, pipelines, run_fn_calls>>

NextMetrics == FeverMetrics

SpecMetrics == InitMetrics /\ [][NextMetrics]_vars

----------------------------------------------------------------------------
(* Verification followed by the decision and the metrics *)

\* analyze, then the loop body of run_fever on its result (the pipeline has
\* no decision_params attribute, so the defaults apply)
NextEvaluate == Analyze \/ (Analyzed /\ FeverMetrics)

SpecEvaluate == InitVerifier /\ [][NextEvaluate]_vars

\* C30: under the default decision parameters, for the result of analyze in
\* any mode: the label SUPPORTS comes only with no contradict vote and a
\* hallucination proxy of 0.0, the label REFUTES only with no entail vote,
\* and a result with an entail vote and a contradict vote is labelled
\* NOT ENOUGH INFO.
C30_LabelsAgreeWithVotes ==
  done = "metrics" =>
    /\ ~decision_params.present
    /\ label \in {SUPPORTS, REFUTES, NOT_ENOUGH_INFO}
    /\ label = SUPPORTS => (Votes["contradict"] = 0 /\ rows[1]["hallucination"] = Zero)
    /\ label = REFUTES => Votes["entail"] = 0
    /\ (Votes["entail"] > 0 /\ Votes["contradict"] > 0) => label = NOT_ENOUGH_INFO

\* C30 witness: two entail votes against one contradict vote, whose strengths
\* alone would pass for SUPPORTS (2/3 against 1/3), labelled NOT ENOUGH INFO
C30_Witness ==
  /\ done = "metrics"
  /\ mode = "single"
  /\ Votes["entail"] = 2 /\ Votes["contradict"] = 1
  /\ label = NOT_ENOUGH_INFO
  /\ rows[1]["hallucination"] = Zero

====
